---------------------------- MODULE Spec2Model ----------------------------
(***************************************************************************)
(* RTCM 3 message codec of gnss-sdr (src/algorithms/PVT/libs/rtcm.cc).     *)
(*                                                                         *)
(* Representation.  A std::string of binary digits is a sequence over      *)
(* {0,1}, first character first; a packed byte string is a sequence over   *)
(* 0..255.  A std::bitset<N> is the N-digit sequence its to_string()       *)
(* gives.  A double that the code divides by an LSB constant and rounds    *)
(* is held as the integer number of LSBs it is a multiple of; integers     *)
(* that need more than 31 bits are held as a pair <<hi, lo>> standing for  *)
(* hi * 2^16 + lo with lo in 0..65535 (a "wide" integer).                  *)
(***************************************************************************)
EXTENDS Integers, Sequences, FiniteSets, TLC

-----------------------------------------------------------------------------
(* Binary-digit helpers: std::bitset / std::string operations.             *)

\* A sequence given by a function over 1..n, as the tuple of its values.
tuple_of(f) == SubSeq(f, 1, Len(f))

\* 2^n for n in 0..30.
Pow2Table == <<1, 2, 4, 8, 16, 32, 64, 128, 256, 512, 1024, 2048, 4096, 8192,
               16384, 32768, 65536, 131072, 262144, 524288, 1048576,
               2097152, 4194304, 8388608, 16777216, 33554432, 67108864,
               134217728, 268435456, 536870912, 1073741824>>
Pow2(n) == Pow2Table[n + 1]

\* Bit k of v (bit 0 the least significant); a negative v contributes its
\* two's-complement bits.
bit_of(v, k) ==
    IF k <= 30 THEN (v \div Pow2(k)) % 2
    ELSE ((v \div Pow2(30)) \div Pow2(k - 30)) % 2

\* std::bitset<N>(v).to_string(): the low N bits of v, most significant
\* first.
bitset(N, v) == tuple_of([i \in 1..N |-> bit_of(v, N - i)])

\* std::bitset<N>(unsigned long long) of a wide integer, N > 16.
bitset_wide(N, w) == bitset(N - 16, w[1]) \o bitset(16, w[2])

\* strtoul(s, nullptr, 2) / bitset::to_ulong() of a digit string of at
\* most 31 digits: the digits s[lo..hi] weighed by their place.
RECURSIVE to_ulong_range(_, _, _)
to_ulong_range(s, lo, hi) ==
    IF lo > hi THEN 0
    ELSE IF lo = hi THEN (IF s[lo] = 0 THEN 0 ELSE Pow2(Len(s) - lo))
    ELSE to_ulong_range(s, lo, (lo + hi) \div 2)
         + to_ulong_range(s, ((lo + hi) \div 2) + 1, hi)
to_ulong(s) == to_ulong_range(s, 1, Len(s))

\* strtoul / strtoll of a digit string longer than 31 digits, as a wide
\* integer.
to_ulong_wide(s) ==
    IF Len(s) <= 16 THEN <<0, to_ulong(s)>>
    ELSE <<to_ulong(SubSeq(s, 1, Len(s) - 16)),
           to_ulong(SubSeq(s, Len(s) - 15, Len(s)))>>

\* boost::dynamic_bitset::flip(): every digit complemented.
flip(s) == tuple_of([i \in 1..Len(s) |-> 1 - s[i]])

\* std::string::substr(pos, n) for pos <= size(): clamps at the end.
substr(s, pos, n) ==
    SubSeq(s, pos + 1, IF pos + n > Len(s) THEN Len(s) ELSE pos + n)

\* substr(pos, n) throws std::out_of_range exactly when pos > size().
substr_throws(s, pos) == pos > Len(s)

-----------------------------------------------------------------------------
(* Bit/byte codec primitives.                                              *)

\* strtol(s.substr(from, 4), nullptr, 2): four digits (fewer at the end of
\* the string) as a number.
nibble(s, from) ==
    IF from + 4 <= Len(s)
    THEN 8 * s[from + 1] + 4 * s[from + 2] + 2 * s[from + 3] + s[from + 4]
    ELSE to_ulong(substr(s, from, 4))

\* Rtcm::bin_to_binary_data, for the strings build_message hands it
\* (at least 8 digits): a leading partial group right-justified in the
\* first byte, then one byte per pass of the loop
\* "for (i = start; i < s.length() - 1; i = i + 8)", read as two 4-bit
\* halves.
bin_to_binary_data(s) ==
    LET remainder == Len(s) % 8
        passes    == IF Len(s) - 1 > remainder
                     THEN (Len(s) - 1 - remainder + 7) \div 8 ELSE 0
        head      == IF remainder # 0
                     THEN <<to_ulong(substr(s, 0, remainder))>> ELSE <<>>
    IN  head \o tuple_of([k \in 1..passes |->
                   nibble(s, remainder + 8 * (k - 1)) * 16
                   + nibble(s, remainder + 8 * (k - 1) + 4)])

\* std::bitset<8>(c).to_string() for every value of a byte c.
bitset8 == tuple_of([c \in 1..256 |-> bitset(8, c - 1)])

\* Rtcm::binary_data_to_bin: 8 digits per byte.
binary_data_to_bin(s) ==
    tuple_of([i \in 1..(8 * Len(s)) |->
        bitset8[s[((i - 1) \div 8) + 1] + 1][((i - 1) % 8) + 1]])

\* boost::dynamic_bitset<uint8_t>(string) + to_block_range + std::reverse:
\* the digit string cut into bytes from its right end, first byte first
\* (a leading partial group is right-justified in the first byte).
to_block_range_reversed(s) ==
    LET remainder == Len(s) % 8
        head      == IF remainder # 0
                     THEN <<to_ulong(SubSeq(s, 1, remainder))>> ELSE <<>>
    IN  head \o tuple_of([k \in 1..(Len(s) \div 8) |->
                   nibble(s, remainder + 8 * (k - 1)) * 16
                   + nibble(s, remainder + 8 * (k - 1) + 4)])

-----------------------------------------------------------------------------
(* Frame checksum: boost::crc_optimal<24, 0x1864CFB, 0, 0, false, false>,  *)
(* a byte-wise table-driven CRC without reflection.                        *)

\* The truncated polynomial: 0x1864CFB without its leading term.
CRC24Q_POLY == 8801531

\* Bitwise exclusive or of two n-digit naturals.
RECURSIVE xor_bits(_, _, _)
xor_bits(a, b, n) ==
    IF n = 0 THEN 0
    ELSE 2 * xor_bits(a \div 2, b \div 2, n - 1) + ((a + b) % 2)

\* Exclusive or of 4-bit, 8-bit and 24-bit values.
xor4 == tuple_of([a \in 1..16 |->
            tuple_of([b \in 1..16 |-> xor_bits(a - 1, b - 1, 4)])])
xor8(a, b) ==
    16 * xor4[(a \div 16) + 1][(b \div 16) + 1]
    + xor4[(a % 16) + 1][(b % 16) + 1]
xor24(a, b) ==
    65536 * xor8(a \div 65536, b \div 65536)
    + 256 * xor8((a \div 256) % 256, (b \div 256) % 256)
    + xor8(a % 256, b % 256)

\* One zero digit shifted into the 24-bit register.
crc_shift(reg) ==
    IF reg >= 8388608 THEN xor24((reg % 8388608) * 2, CRC24Q_POLY)
    ELSE reg * 2

\* The remainder of one byte followed by 24 zero digits: the entries of
\* the lookup table of crc_optimal.
crc_table ==
    tuple_of([c \in 1..256 |->
        crc_shift(crc_shift(crc_shift(crc_shift(
        crc_shift(crc_shift(crc_shift(crc_shift((c - 1) * 65536))))))))])

crc_process_byte_blind(reg, byte) ==
    xor24((reg % 65536) * 256, crc_table[(reg \div 65536) + 1])
\* One byte taken into the register.
crc_process_byte(reg, byte) ==
    xor24((reg % 65536) * 256, crc_table[xor8(reg \div 65536, byte) + 1])

\* process_bytes over bytes[lo..hi], in order, from register reg.  The
\* register is a remainder and never negative; testing it has the register
\* computed before the next byte is taken.
RECURSIVE crc_process_range(_, _, _, _)
crc_process_range(reg, bytes, lo, hi) ==
    IF lo > hi \/ reg < 0 THEN reg
    ELSE IF lo = hi THEN crc_process_byte(reg, bytes[lo])
    ELSE LET mid == (lo + hi) \div 2
         IN  crc_process_range(crc_process_range(reg, bytes, lo, mid),
                               bytes, mid + 1, hi)

\* process_bytes(bytes) from an initial remainder of 0, then
\* std::bitset<24>(checksum()).
crc_process_bytes(bytes) ==
    bitset(24, crc_process_range(0, bytes, 1, Len(bytes)))

\* Rtcm::add_CRC
add_CRC(message_without_crc) ==
    LET bytes     == to_block_range_reversed(message_without_crc)
        crc_frame == crc_process_bytes(bytes)
    IN  bin_to_binary_data(message_without_crc \o crc_frame)

\* Rtcm::check_CRC throws std::out_of_range from substr(length() - 24, 24)
\* when the message holds fewer than 24 digits (the size_t difference
\* wraps around to a position beyond the end).
check_CRC_throws(message) == Len(binary_data_to_bin(message)) < 24

\* Rtcm::check_CRC when it returns: the comparison it makes on
\* message_bin, the digits of the message.
check_CRC_bin(message_bin) ==
    LET crc             == substr(message_bin, Len(message_bin) - 24, 24)
        msg_without_crc == substr(message_bin, 0, Len(message_bin) - 24)
        bytes           == to_block_range_reversed(msg_without_crc)
    IN  crc = crc_process_bytes(bytes)

check_CRC(message) == check_CRC_bin(binary_data_to_bin(message))

-----------------------------------------------------------------------------
(* Frame transport envelope.                                               *)

preamble == <<1,1,0,1,0,0,1,1>>
reserved_field == <<0,0,0,0,0,0>>

ceil_div8_floor(n) == n \div 8
\* std::ceil(static_cast<float>(n) / 8.0) converted to uint32_t.
ceil_div8(n) == (n + 7) \div 8

\* Rtcm::build_message
build_message(data) ==
    LET msg_length_bits  == Len(data)
        msg_length_bytes == ceil_div8(msg_length_bits)
        message_length   == bitset(10, msg_length_bytes)
        zeros_to_fill    == 8 * msg_length_bytes - msg_length_bits
        b                == tuple_of([i \in 1..zeros_to_fill |-> 0])
        msg_content      == data \o b
        msg_without_crc  == preamble \o reserved_field \o message_length
                            \o msg_content
    IN  add_CRC(msg_without_crc)

-----------------------------------------------------------------------------
(* Integer conversions of the decode path.                                 *)

\* -(u + 1) for a wide natural u.
wide_neg_succ(u) == <<-u[1] - 1, 65535 - u[2]>>

\* Rtcm::bin_to_uint.  A 32-digit reading needs all of uint32_t and is
\* held wide; shorter readings are plain naturals.
bin_to_uint(s) ==
    IF Len(s) > 32 THEN 0
    ELSE IF Len(s) = 32 THEN to_ulong_wide(s)
    ELSE to_ulong(s)

\* Rtcm::bin_to_uint with the result held wide whatever the length read.
bin_to_uint_wide(s) == IF Len(s) > 32 THEN <<0, 0>> ELSE to_ulong_wide(s)

\* Rtcm::bin_to_int: two's complement, at most 32 digits.
bin_to_int(s) ==
    IF Len(s) > 32 THEN 0
    ELSE IF substr(s, 0, 1) # <<0>> THEN -to_ulong(flip(s)) - 1
    ELSE to_ulong(s)

\* Rtcm::bin_to_sint: first digit is a sign flag, the rest a magnitude.
bin_to_sint(s) ==
    IF Len(s) > 32 THEN 0
    ELSE IF substr(s, 0, 1) # <<0>> THEN 1 * to_ulong(substr(s, 1, Len(s)))
    ELSE (-1) * to_ulong(substr(s, 1, Len(s)))

\* glo_sgn: 1 for a negative value, 0 otherwise; val is a scaled value
\* <<n, "LSB">>.
glo_sgn(val) == IF val[1] < 0 THEN 1 ELSE 0

bin_to_double_unsigned(s) == to_ulong_wide(s)
\* Rtcm::bin_to_double: two's complement of up to 64 digits through
\* strtoll, as a wide integer.
bin_to_double(s) ==
    IF Len(s) > 64 THEN <<0, 0>>
    ELSE IF substr(s, 0, 1) # <<0>> THEN wide_neg_succ(to_ulong_wide(flip(s)))
    ELSE to_ulong_wide(s)

-----------------------------------------------------------------------------
(* Field-by-field decoding shared by the read_MTxxxx functions.            *)

\* raw * LSB for the LSB constant named lsb: a pair of the integer and the
\* name of the constant; zero is zero whatever the constant, and "1"
\* stands for no constant at all.
scaled(raw, lsb) == IF raw = 0 THEN <<0, "0">> ELSE <<raw, lsb>>

\* raw * LSB for a raw reading held wide.
scaled_wide(raw, lsb) == IF raw = <<0, 0>> THEN <<0, "0">> ELSE <<raw, lsb>>

\* std::round(value / LSB) for a value that is a multiple of the constant
\* named lsb.
round_div(value, lsb) ==
    IF value[2] = "0" THEN 0
    ELSE IF value[2] = lsb THEN value[1]
    ELSE CHOOSE q \in {} : TRUE

\* std::round(value / LSB) of a value whose quotient needs all of
\* uint32_t, as a wide integer.
round_div_wide(value, lsb) ==
    IF value[2] = "0" THEN <<0, 0>>
    ELSE IF value[2] = lsb THEN value[1]
    ELSE CHOOSE q \in {} : TRUE

\* The integer part of an unscaled value, as a conversion of the double to
\* an integer type takes it.
truncated(value) ==
    IF value[2] \in {"0", "1"} THEN value[1] ELSE CHOOSE q \in {} : TRUE

\* static_cast<uint32_t>(d) of a double d holding the integer n.  For
\* n < 0 the conversion is undefined: the builds in use give n modulo
\* 2^32 ("wrap": conversion through a 64-bit signed register), 0 ("zero":
\* a saturating conversion) or 0xFFFFFFFF ("ones": the unsigned
\* conversion's indefinite value).  The result is an integer with the
\* same low 32 bits as the uint32_t.
FpToUint32Outcomes == {"wrap", "zero", "ones"}
fp_to_uint32(n, fptoui) ==
    IF n >= 0 \/ fptoui = "wrap" THEN n
    ELSE IF fptoui = "zero" THEN 0
    ELSE -1

\* The value one decode statement assigns from the digits sub it reads;
\* old is the field's value before the statement.
read_field(row, sub, old) ==
    CASE row.conv = "uint"   -> bin_to_uint(sub)
      [] row.conv = "uint_again" -> bin_to_uint(sub)
      [] row.conv = "bool"   -> (bin_to_uint(sub) # 0)
      [] row.conv = "int"    -> bin_to_int(sub)
      [] row.conv = "double_div_10000" -> bin_to_double(sub)
      [] row.conv = "uint_lsb" -> scaled(bin_to_uint(sub), row.lsb)
      [] row.conv = "uint32_lsb" -> scaled_wide(bin_to_uint_wide(sub), row.lsb)
      [] row.conv = "int_lsb"  -> scaled(bin_to_int(sub), row.lsb)
      [] row.conv = "int_double" -> scaled(bin_to_int(sub), "1")
      [] row.conv = "sint_lsb" -> scaled(bin_to_sint(sub), row.lsb)
      [] row.conv = "uint_minus_7" -> bin_to_uint(sub) - 7
      [] row.conv = "uint_times" -> bin_to_uint(sub) * row.times
      [] row.conv = "P_1" ->
            IF bin_to_uint(sub) = 0 THEN 0 ELSE (bin_to_uint(sub) + 1) * 15
      [] row.conv = "add_int_times" -> old + bin_to_int(sub) * row.times

\* One statement of a decoder, on the walk st: the digit index reached,
\* the record as assigned so far, whether an exception has left the call
\* and whether the statements have ended.  A row reads substr(index, w)
\* and advances index by w ("skip" rows only advance, "uint_again" rows
\* read without advancing, "local" rows read into a local variable, and a
\* "stop_unless_set" row ends the statements when the digit it reads is
\* 0).  substr throws std::out_of_range once index is beyond the end of
\* message_bin (bin_to_sint also on an empty reading, from its substr(1));
\* the fields assigned before that keep their new values.
read_advance(row) == IF row.conv = "uint_again" THEN 0 ELSE row.w
read_statement(message_bin, row, st) ==
    IF st.threw \/ st.stopped THEN st
    ELSE IF row.conv = "skip" THEN [st EXCEPT !.index = @ + row.w]
    ELSE IF substr_throws(message_bin, st.index)
            \/ (row.conv = "sint_lsb" /\ st.index = Len(message_bin))
    THEN [st EXCEPT !.threw = TRUE]
    ELSE IF row.conv = "local" THEN [st EXCEPT !.index = @ + row.w]
    ELSE IF row.conv = "stop_unless_set"
    THEN IF bin_to_uint(substr(message_bin, st.index, row.w)) = 1
         THEN [st EXCEPT !.index = @ + row.w]
         ELSE [st EXCEPT !.stopped = TRUE]
    ELSE [st EXCEPT
             !.index = @ + read_advance(row),
             !.rec = [st.rec EXCEPT ![row.f] =
                         read_field(row, substr(message_bin, st.index, row.w),
                                    st.rec[row.f])]]

\* The statements rows[lo] .. rows[hi] in order, on the walk st.
RECURSIVE read_statements(_, _, _, _, _)
read_statements(message_bin, rows, lo, hi, st) ==
    IF lo = hi THEN read_statement(message_bin, rows[lo], st)
    ELSE read_statements(message_bin, rows, ((lo + hi) \div 2) + 1, hi,
             read_statements(message_bin, rows, lo, (lo + hi) \div 2, st))

\* The statements of one decoder, starting at digit index on the record
\* rec.
read_fields(message_bin, index, rows, rec) ==
    read_statements(message_bin, rows, 1, Len(rows),
                    [index |-> index, rec |-> rec, threw |-> FALSE,
                     stopped |-> FALSE])

\* The end of a decoder: an exception out of the field statements leaves
\* the call with the fields assigned so far; otherwise 0 is returned.
read_MT_end(walk) ==
    IF walk.threw
    THEN [result |-> "out_of_range", check |-> "none", rec |-> walk.rec]
    ELSE [result |-> "0", check |-> "none", rec |-> walk.rec]

read_MT_bin_eager(message_bin, expected_length, msg_number, rows, rec) ==
    IF bin_to_uint(substr(message_bin, 14, 10)) # expected_length
    THEN [result |-> "1", check |-> "length", rec |-> rec]
    ELSE IF msg_number # bin_to_uint(substr(message_bin, 24, 12))
    THEN [result |-> "1", check |-> "number",
          rec |-> read_fields(message_bin, 36, rows, rec).rec]
    ELSE read_MT_end(read_fields(message_bin, 36, rows, rec))
\* A decoder after its CRC test, on message_bin, the digits of the
\* message: the declared length, then the message number, then the field
\* statements.
read_MT_bin(message_bin, expected_length, msg_number, rows, rec) ==
    IF bin_to_uint(substr(message_bin, 14, 10)) # expected_length
    THEN [result |-> "1", check |-> "length", rec |-> rec]
    ELSE IF msg_number # bin_to_uint(substr(message_bin, 24, 12))
    THEN [result |-> "1", check |-> "number", rec |-> rec]
    ELSE read_MT_end(read_fields(message_bin, 36, rows, rec))

\* The common shape of read_MT1005 / 1019 / 1020 / 1045: CRC, then
\* declared length, then message number, then the field statements.
\* result is "1" or "0" for the value returned and "out_of_range" when a
\* std::out_of_range exception leaves the call; check names the test that
\* ended the call.
read_MT(message, expected_length, msg_number, rows, rec) ==
    IF check_CRC_throws(message)
    THEN [result |-> "out_of_range", check |-> "crc", rec |-> rec]
    ELSE IF ~check_CRC(message)
    THEN [result |-> "1", check |-> "crc", rec |-> rec]
    ELSE read_MT_bin(binary_data_to_bin(message), expected_length,
                     msg_number, rows, rec)

-----------------------------------------------------------------------------
(* Message type 1005: station description.                                 *)

set_DF002(message_number) == bitset(12, message_number)
set_DF003(ref_station_ID) == bitset(12, ref_station_ID)
set_DF021 == bitset(6, 0)
set_DF022(gps_indicator) == bitset(1, IF gps_indicator THEN 1 ELSE 0)
set_DF023(glonass_indicator) == bitset(1, IF glonass_indicator THEN 1 ELSE 0)
set_DF024(galileo_indicator) == bitset(1, IF galileo_indicator THEN 1 ELSE 0)
\* static_cast<int64_t>(std::round(antenna_ECEF_X_m * 10000)) is the
\* coordinate in units of 0.0001 m, held wide.
set_DF025(antenna_ECEF_X_m) == bitset_wide(38, antenna_ECEF_X_m)
set_DF026_magnitude(antenna_ECEF_Y_m) ==
    IF antenna_ECEF_Y_m[1] < 0
    THEN <<1>> \o bitset_wide(37, wide_neg_succ(<<antenna_ECEF_Y_m[1],
                                   antenna_ECEF_Y_m[2] - 1>>))
    ELSE bitset_wide(38, antenna_ECEF_Y_m)
set_DF026(antenna_ECEF_Y_m) == bitset_wide(38, antenna_ECEF_Y_m)
set_DF027(antenna_ECEF_Z_m) == bitset_wide(38, antenna_ECEF_Z_m)

\* The digit string Rtcm::print_MT1005 hands to build_message.
print_MT1005_data(a) ==
    LET DF141  == bitset(1, IF a.non_physical THEN 1 ELSE 0)
        DF001_ == <<0>>
        DF142  == bitset(1, IF a.single_oscillator THEN 1 ELSE 0)
        DF364  == bitset(2, a.quarter_cycle_indicator)
    IN  set_DF002(1005) \o set_DF003(a.ref_id) \o set_DF021
        \o set_DF022(a.gps) \o set_DF023(a.glonass) \o set_DF024(a.galileo)
        \o DF141 \o set_DF025(a.ecef_x) \o DF142 \o DF001_
        \o set_DF026(a.ecef_y) \o DF364 \o set_DF027(a.ecef_z)

\* Rtcm::print_MT1005: the frame returned.
print_MT1005(a) == build_message(print_MT1005_data(a))

\* Rtcm::get_MT1005_test: reference station 2003, GPS only,
\* ECEF (1114104.5999, -4850729.7108, 3975521.4643) m, as the digits of
\* the std::bitset<152> it returns.
get_MT1005_test ==
    LET mt1005               == 1005
        reference_station_id == 2003
        ECEF_X == <<169998, 57071>>    \* 11141045999 units of 0.0001 m
        ECEF_Y == <<-740163, 25260>>   \* -48507297108
        ECEF_Z == <<606616, 28467>>    \* 39755214643
        DF141  == <<0>>
        DF001_ == <<0>>
        DF142  == <<0>>
        DF364  == <<0, 0>>
    IN  set_DF002(mt1005) \o set_DF003(reference_station_id) \o set_DF021
        \o set_DF022(TRUE) \o set_DF023(FALSE) \o set_DF024(FALSE)
        \o DF141 \o set_DF025(ECEF_X) \o DF142 \o DF001_
        \o set_DF026(ECEF_Y) \o DF364 \o set_DF027(ECEF_Z)

\* Rtcm::print_MT1005_test
print_MT1005_test == build_message(get_MT1005_test)

\* The statements of Rtcm::read_MT1005 after the message-number test.
read_MT1005_fields == <<
    [f |-> "ref_id",  w |-> 12, conv |-> "uint"],
    [f |-> "",        w |-> 6,  conv |-> "skip"],
    [f |-> "gps",     w |-> 1,  conv |-> "bool"],
    [f |-> "glonass", w |-> 1,  conv |-> "bool"],
    [f |-> "galileo", w |-> 1,  conv |-> "bool"],
    [f |-> "",        w |-> 1,  conv |-> "skip"],
    [f |-> "ecef_x",  w |-> 38, conv |-> "double_div_10000"],
    [f |-> "",        w |-> 1,  conv |-> "skip"],
    [f |-> "",        w |-> 1,  conv |-> "skip"],
    [f |-> "ecef_y",  w |-> 38, conv |-> "double_div_10000"],
    [f |-> "",        w |-> 2,  conv |-> "skip"],
    [f |-> "ecef_z",  w |-> 38, conv |-> "double_div_10000"] >>

\* Rtcm::read_MT1005 on the output parameters out.
read_MT1005(message, out) ==
    read_MT(message, 19, 1005, read_MT1005_fields, out)

-----------------------------------------------------------------------------
(* Message type 1019: GPS ephemeris.  A Gps_Ephemeris field that the code  *)
(* scales is held as <<n, "LSB">>: n times the constant of that name.      *)

\* The DF members as the setters print_MT1019 calls leave them; fptoui is
\* what the build makes of a negative double converted to uint32_t.
set_DF_MT1019(gps_eph, fptoui) ==
    [DF009 |-> bitset(6, gps_eph.PRN),
     DF076 |-> bitset(10, gps_eph.WN),
     DF077 |-> bitset(4, gps_eph.SV_accuracy),
     DF078 |-> bitset(2, gps_eph.code_on_L2),
     DF079 |->
         bitset(14, fp_to_uint32(round_div(gps_eph.idot, "I_DOT_LSB"), fptoui)),
     DF071 |-> bitset(8, gps_eph.IODE_SF2),
     DF081 |->
         bitset(16, fp_to_uint32(round_div(gps_eph.toc, "T_OC_LSB"), fptoui)),
     DF082 |-> bitset(8, round_div(gps_eph.af2, "A_F2_LSB")),
     DF083 |-> bitset(16, round_div(gps_eph.af1, "A_F1_LSB")),
     DF084 |-> bitset(22, round_div(gps_eph.af0, "A_F0_LSB")),
     DF085 |-> bitset(10, gps_eph.IODC),
     DF086 |-> bitset(16, round_div(gps_eph.Crs, "C_RS_LSB")),
     DF087 |-> bitset(16, round_div(gps_eph.delta_n, "DELTA_N_LSB")),
     DF088 |-> bitset(32, round_div(gps_eph.M_0, "M_0_LSB")),
     DF089 |-> bitset(16, round_div(gps_eph.Cuc, "C_UC_LSB")),
     DF090 |->
         bitset_wide(32, round_div_wide(gps_eph.ecc, "ECCENTRICITY_LSB")),
     DF091 |-> bitset(16, round_div(gps_eph.Cus, "C_US_LSB")),
     DF092 |-> bitset_wide(32, round_div_wide(gps_eph.sqrtA, "SQRT_A_LSB")),
     DF093 |->
         bitset(16, fp_to_uint32(round_div(gps_eph.toe, "T_OE_LSB"), fptoui)),
     DF094 |-> bitset(16, round_div(gps_eph.Cic, "C_IC_LSB")),
     DF095 |-> bitset(32, round_div(gps_eph.OMEGA_0, "OMEGA_0_LSB")),
     DF096 |-> bitset(16, round_div(gps_eph.Cis, "C_IS_LSB")),
     DF097 |-> bitset(32, round_div(gps_eph.i_0, "I_0_LSB")),
     DF098 |-> bitset(16, round_div(gps_eph.Crc, "C_RC_LSB")),
     DF099 |-> bitset(32, round_div(gps_eph.omega, "OMEGA_LSB")),
     DF100 |-> bitset(24, round_div(gps_eph.OMEGAdot, "OMEGA_DOT_LSB")),
     DF101 |-> bitset(8, round_div(gps_eph.TGD, "T_GD_LSB")),
     DF102 |-> bitset(6, gps_eph.SV_health),
     DF103 |-> bitset(1, IF gps_eph.L2_P_data_flag THEN 1 ELSE 0),
     DF137 |-> bitset(1, IF gps_eph.fit_interval_flag THEN 1 ELSE 0)]

\* The 488 digits Rtcm::print_MT1019 hands to build_message; fptoui is what
\* the build makes of a negative double converted to uint32_t.
print_MT1019_data(gps_eph, fptoui) ==
    LET DFs == set_DF_MT1019(gps_eph, fptoui)
    IN  set_DF002(1019)
        \o DFs.DF009
        \o DFs.DF076
        \o DFs.DF077
        \o DFs.DF078
        \o DFs.DF079
        \o DFs.DF071
        \o DFs.DF081
        \o DFs.DF082
        \o DFs.DF083
        \o DFs.DF084
        \o DFs.DF085
        \o DFs.DF086
        \o DFs.DF087
        \o DFs.DF088
        \o DFs.DF089
        \o DFs.DF090
        \o DFs.DF091
        \o DFs.DF092
        \o DFs.DF093
        \o DFs.DF094
        \o DFs.DF095
        \o DFs.DF096
        \o DFs.DF097
        \o DFs.DF098
        \o DFs.DF099
        \o DFs.DF100
        \o DFs.DF101
        \o DFs.DF102
        \o DFs.DF103
        \o DFs.DF137

\* Rtcm::print_MT1019: the frame returned.
print_MT1019(gps_eph, fptoui) ==
    build_message(print_MT1019_data(gps_eph, fptoui))

\* The statements of Rtcm::read_MT1019 after the message-number test.
read_MT1019_fields == <<
    [f |-> "PRN", w |-> 6, conv |-> "uint"],
    [f |-> "WN", w |-> 10, conv |-> "uint"],
    [f |-> "SV_accuracy", w |-> 4, conv |-> "uint"],
    [f |-> "code_on_L2", w |-> 2, conv |-> "uint"],
    [f |-> "idot", w |-> 14, conv |-> "int_lsb",
     lsb |-> "I_DOT_LSB"],
    [f |-> "IODE_SF2", w |-> 8, conv |-> "uint_again"],
    [f |-> "IODE_SF3", w |-> 8, conv |-> "uint"],
    [f |-> "toc", w |-> 16, conv |-> "uint_lsb",
     lsb |-> "T_OC_LSB"],
    [f |-> "af2", w |-> 8, conv |-> "int_lsb",
     lsb |-> "A_F2_LSB"],
    [f |-> "af1", w |-> 16, conv |-> "int_lsb",
     lsb |-> "A_F1_LSB"],
    [f |-> "af0", w |-> 22, conv |-> "int_lsb",
     lsb |-> "A_F0_LSB"],
    [f |-> "IODC", w |-> 10, conv |-> "uint"],
    [f |-> "Crs", w |-> 16, conv |-> "int_lsb",
     lsb |-> "C_RS_LSB"],
    [f |-> "delta_n", w |-> 16, conv |-> "int_lsb",
     lsb |-> "DELTA_N_LSB"],
    [f |-> "M_0", w |-> 32, conv |-> "int_lsb",
     lsb |-> "M_0_LSB"],
    [f |-> "Cuc", w |-> 16, conv |-> "int_lsb",
     lsb |-> "C_UC_LSB"],
    [f |-> "ecc", w |-> 32, conv |-> "uint32_lsb",
     lsb |-> "ECCENTRICITY_LSB"],
    [f |-> "Cus", w |-> 16, conv |-> "int_lsb",
     lsb |-> "C_US_LSB"],
    [f |-> "sqrtA", w |-> 32, conv |-> "uint32_lsb",
     lsb |-> "SQRT_A_LSB"],
    [f |-> "toe", w |-> 16, conv |-> "uint_lsb",
     lsb |-> "T_OE_LSB"],
    [f |-> "Cic", w |-> 16, conv |-> "int_lsb",
     lsb |-> "C_IC_LSB"],
    [f |-> "OMEGA_0", w |-> 32, conv |-> "int_lsb",
     lsb |-> "OMEGA_0_LSB"],
    [f |-> "Cis", w |-> 16, conv |-> "int_lsb",
     lsb |-> "C_IS_LSB"],
    [f |-> "i_0", w |-> 32, conv |-> "int_lsb",
     lsb |-> "I_0_LSB"],
    [f |-> "Crc", w |-> 16, conv |-> "int_lsb",
     lsb |-> "C_RC_LSB"],
    [f |-> "omega", w |-> 32, conv |-> "int_lsb",
     lsb |-> "OMEGA_LSB"],
    [f |-> "OMEGAdot", w |-> 24, conv |-> "int_lsb",
     lsb |-> "OMEGA_DOT_LSB"],
    [f |-> "TGD", w |-> 8, conv |-> "int_lsb",
     lsb |-> "T_GD_LSB"],
    [f |-> "SV_health", w |-> 6, conv |-> "uint"],
    [f |-> "L2_P_data_flag", w |-> 1, conv |-> "bool"],
    [f |-> "fit_interval_flag", w |-> 1, conv |-> "bool"] >>

\* Rtcm::read_MT1019 on the record gps_eph.
read_MT1019(message, gps_eph) ==
    read_MT(message, 61, 1019, read_MT1019_fields, gps_eph)

-----------------------------------------------------------------------------
(* Message type 1045: Galileo F/NAV ephemeris.                             *)

\* The DF members as the setters print_MT1045 calls leave them.  DF292 is
\* not among them: set_DF292 is defined, and nothing in rtcm.cc calls it.
set_DF_MT1045(gal_eph, fptoui) ==
    [DF252 |-> bitset(6, gal_eph.PRN),
     DF289 |-> bitset(12, gal_eph.WN),
     DF290 |-> bitset(10, gal_eph.IOD_nav),
     DF291 |-> bitset(8, gal_eph.SISA),
     DF293 |-> bitset(14, fp_to_uint32(truncated(gal_eph.toc), fptoui)),
     DF294 |-> bitset(6, round_div(gal_eph.af2, "FNAV_AF2_1_LSB")),
     DF295 |-> bitset(21, round_div(gal_eph.af1, "FNAV_AF1_1_LSB")),
     DF296 |->
         bitset(31, fp_to_uint32(round_div(gal_eph.af0, "FNAV_AF0_1_LSB"), fptoui)),
     DF297 |-> bitset(16, round_div(gal_eph.Crs, "FNAV_CRS_3_LSB")),
     DF298 |-> bitset(16, round_div(gal_eph.delta_n, "FNAV_DELTAN_3_LSB")),
     DF299 |-> bitset(32, round_div(gal_eph.M_0, "FNAV_M0_2_LSB")),
     DF300 |->
         bitset(16, fp_to_uint32(round_div(gal_eph.Cuc, "FNAV_CUC_3_LSB"), fptoui)),
     DF301 |-> bitset_wide(32, round_div_wide(gal_eph.ecc, "FNAV_E_2_LSB")),
     DF302 |-> bitset(16, round_div(gal_eph.Cus, "FNAV_CUS_3_LSB")),
     DF303 |->
         bitset_wide(32, round_div_wide(gal_eph.sqrtA, "FNAV_A12_2_LSB")),
     DF304 |->
         bitset(14, fp_to_uint32(round_div(gal_eph.toe, "FNAV_T0E_3_LSB"), fptoui)),
     DF305 |-> bitset(16, round_div(gal_eph.Cic, "FNAV_CIC_4_LSB")),
     DF306 |-> bitset(32, round_div(gal_eph.OMEGA_0, "FNAV_OMEGA0_2_LSB")),
     DF307 |-> bitset(16, round_div(gal_eph.Cis, "FNAV_CIS_4_LSB")),
     DF308 |-> bitset(32, round_div(gal_eph.i_0, "FNAV_I0_3_LSB")),
     DF309 |->
         bitset(16, fp_to_uint32(round_div(gal_eph.Crc, "FNAV_CRC_3_LSB"), fptoui)),
     DF310 |-> bitset(32, round_div(gal_eph.omega, "FNAV_OMEGA0_2_LSB")),
     DF311 |-> bitset(24, round_div(gal_eph.OMEGAdot, "FNAV_OMEGADOT_2_LSB")),
     DF312 |-> bitset(10, round_div(gal_eph.BGD_E1E5a, "FNAV_BGD_1_LSB")),
     DF314 |-> bitset(2, gal_eph.E5a_HS),
     DF315 |-> bitset(1, IF gal_eph.E5a_DVS THEN 1 ELSE 0)]

\* The 496 digits Rtcm::print_MT1045 hands to build_message.  It calls
\* every setter above but set_DF292: the idot digits are those the member
\* DF292 holds when the call is made.
print_MT1045_data(gal_eph, DF292, fptoui) ==
    LET DFs == set_DF_MT1045(gal_eph, fptoui)
    IN  set_DF002(1045)
        \o DFs.DF252
        \o DFs.DF289
        \o DFs.DF290
        \o DFs.DF291
        \o DF292
        \o DFs.DF293
        \o DFs.DF294
        \o DFs.DF295
        \o DFs.DF296
        \o DFs.DF297
        \o DFs.DF298
        \o DFs.DF299
        \o DFs.DF300
        \o DFs.DF301
        \o DFs.DF302
        \o DFs.DF303
        \o DFs.DF304
        \o DFs.DF305
        \o DFs.DF306
        \o DFs.DF307
        \o DFs.DF308
        \o DFs.DF309
        \o DFs.DF310
        \o DFs.DF311
        \o DFs.DF312
        \o DFs.DF314
        \o DFs.DF315
        \o bitset(7, 0)

\* Rtcm::print_MT1045: the frame returned.
print_MT1045(gal_eph, DF292, fptoui) ==
    build_message(print_MT1045_data(gal_eph, DF292, fptoui))

\* The statements of Rtcm::read_MT1045 after the message-number test.
read_MT1045_fields == <<
    [f |-> "PRN", w |-> 6, conv |-> "uint"],
    [f |-> "WN", w |-> 12, conv |-> "uint"],
    [f |-> "IOD_nav", w |-> 10, conv |-> "uint"],
    [f |-> "SISA", w |-> 8, conv |-> "uint"],
    [f |-> "idot", w |-> 14, conv |-> "int_lsb", lsb |-> "I_DOT_2_LSB"],
    [f |-> "toc", w |-> 14, conv |-> "uint_lsb", lsb |-> "T0C_4_LSB"],
    [f |-> "af2", w |-> 6, conv |-> "int_lsb", lsb |-> "AF2_4_LSB"],
    [f |-> "af1", w |-> 21, conv |-> "int_lsb", lsb |-> "AF1_4_LSB"],
    [f |-> "af0", w |-> 31, conv |-> "int_lsb", lsb |-> "AF0_4_LSB"],
    [f |-> "Crs", w |-> 16, conv |-> "int_lsb", lsb |-> "C_RS_3_LSB"],
    [f |-> "delta_n", w |-> 16, conv |-> "int_lsb", lsb |-> "DELTA_N_3_LSB"],
    [f |-> "M_0", w |-> 32, conv |-> "int_lsb", lsb |-> "M0_1_LSB"],
    [f |-> "Cuc", w |-> 16, conv |-> "int_lsb", lsb |-> "C_UC_3_LSB"],
    [f |-> "ecc", w |-> 32, conv |-> "uint32_lsb", lsb |-> "E_1_LSB"],
    [f |-> "Cus", w |-> 16, conv |-> "int_lsb", lsb |-> "C_US_3_LSB"],
    [f |-> "sqrtA", w |-> 32, conv |-> "uint32_lsb", lsb |-> "A_1_LSB_GAL"],
    [f |-> "toe", w |-> 14, conv |-> "uint_lsb", lsb |-> "T0E_1_LSB"],
    [f |-> "Cic", w |-> 16, conv |-> "int_lsb", lsb |-> "C_IC_4_LSB"],
    [f |-> "OMEGA_0", w |-> 32, conv |-> "int_lsb", lsb |-> "OMEGA_0_2_LSB"],
    [f |-> "Cis", w |-> 16, conv |-> "int_lsb", lsb |-> "C_IS_4_LSB"],
    [f |-> "i_0", w |-> 32, conv |-> "int_lsb", lsb |-> "I_0_2_LSB"],
    [f |-> "Crc", w |-> 16, conv |-> "int_lsb", lsb |-> "C_RC_3_LSB"],
    [f |-> "omega", w |-> 32, conv |-> "int_lsb", lsb |-> "OMEGA_2_LSB"],
    [f |-> "OMEGAdot", w |-> 24, conv |-> "int_lsb",
     lsb |-> "OMEGA_DOT_3_LSB"],
    [f |-> "BGD_E1E5a", w |-> 10, conv |-> "int_double"],
    [f |-> "E5a_HS", w |-> 2, conv |-> "uint"],
    [f |-> "E5a_DVS", w |-> 1, conv |-> "bool"] >>

\* Rtcm::read_MT1045 on the record gal_eph.
read_MT1045(message, gal_eph) ==
    read_MT(message, 62, 1045, read_MT1045_fields, gal_eph)

-----------------------------------------------------------------------------
(* Message type 1020: GLONASS ephemeris.  The record glonass_gnav_eph and  *)
(* the record glonass_gnav_utc_model are held as their fields; d_t_k and   *)
(* d_t_b are whole seconds, d_P_1 whole minutes.                           *)

\* bitset::set(N - 1, sgn) on the N digits bits: the first digit replaced.
set_msb(bits, sgn) == <<sgn>> \o Tail(bits)

\* std::round(fabs(value / LSB)) for a multiple of the constant named lsb.
round_fabs_div(value, lsb) ==
    IF round_div(value, lsb) < 0 THEN -round_div(value, lsb)
    ELSE round_div(value, lsb)

\* std::round(a / b) for whole a >= 0 and b > 0.
round_quot(a, b) == (2 * a + b) \div (2 * b)

\* std::round(value) for a value of the 22-digit field of TWO_N30 units:
\* less than 2^21 units of 2^-30 is nearer to 0 than to any other integer.
round_double(value) ==
    IF value[2] = "0" THEN 0
    ELSE IF value[2] = "TWO_N30" /\ value[1] < Pow2(21) /\ -value[1] < Pow2(21)
    THEN 0
    ELSE CHOOSE q \in {} : TRUE

\* The DF members as the setters print_MT1020 calls leave them.
set_DF_MT1020(glonass_gnav_eph, glonass_gnav_utc_model) ==
    [DF038 |-> bitset(6, glonass_gnav_eph.i_satellite_slot_number),
     DF040 |-> bitset(5, glonass_gnav_eph.i_satellite_freq_channel + 7),
     \* glonass_gnav_alm_health and glonass_gnav_alm_health_ind are 0 in
     \* print_MT1020.
     DF104 |-> bitset(1, 0),
     DF105 |-> bitset(1, 0),
     \* d_P_1 is 0, 30, 45 or 60: std::round(d_P_1 / 15.), less one unless 0.
     DF106 |->
         bitset(2, IF round_quot(glonass_gnav_eph.d_P_1, 15) = 0 THEN 0
                   ELSE round_quot(glonass_gnav_eph.d_P_1, 15) - 1),
     \* hrs and min of tk = d_t_k, and
     \* sec = (tk - hrs * 3600 - min * 60) / 60.
     DF107 |->
         LET tk == glonass_gnav_eph.d_t_k
             hrs == tk \div 3600
             min == (tk - hrs * 3600) \div 60
             sec == (tk - hrs * 3600 - min * 60) \div 60
         IN  bitset(5, hrs) \o bitset(6, min) \o bitset(1, sec),
     DF108 |-> bitset(1, IF glonass_gnav_eph.d_B_n # 0 THEN 1 ELSE 0),
     DF109 |-> bitset(1, IF glonass_gnav_eph.d_P_2 THEN 1 ELSE 0),
     DF110 |-> bitset(7, round_quot(glonass_gnav_eph.d_t_b, 15 * 60)),
     DF111 |->
         set_msb(bitset(24, round_fabs_div(glonass_gnav_eph.d_VXn, "TWO_N20")),
                 glo_sgn(glonass_gnav_eph.d_VXn)),
     DF112 |->
         set_msb(bitset(27, round_fabs_div(glonass_gnav_eph.d_Xn, "TWO_N11")),
                 glo_sgn(glonass_gnav_eph.d_Xn)),
     DF113 |->
         set_msb(bitset(5, round_fabs_div(glonass_gnav_eph.d_AXn, "TWO_N30")),
                 glo_sgn(glonass_gnav_eph.d_AXn)),
     DF114 |->
         set_msb(bitset(24, round_fabs_div(glonass_gnav_eph.d_VYn, "TWO_N20")),
                 glo_sgn(glonass_gnav_eph.d_VYn)),
     DF115 |->
         set_msb(bitset(27, round_fabs_div(glonass_gnav_eph.d_Yn, "TWO_N11")),
                 glo_sgn(glonass_gnav_eph.d_Yn)),
     DF116 |->
         set_msb(bitset(5, round_fabs_div(glonass_gnav_eph.d_AYn, "TWO_N30")),
                 glo_sgn(glonass_gnav_eph.d_AYn)),
     DF117 |->
         set_msb(bitset(24, round_fabs_div(glonass_gnav_eph.d_VZn, "TWO_N20")),
                 glo_sgn(glonass_gnav_eph.d_VZn)),
     DF118 |->
         set_msb(bitset(27, round_fabs_div(glonass_gnav_eph.d_Zn, "TWO_N11")),
                 glo_sgn(glonass_gnav_eph.d_Zn)),
     DF119 |->
         set_msb(bitset(5, round_fabs_div(glonass_gnav_eph.d_AZn, "TWO_N30")),
                 glo_sgn(glonass_gnav_eph.d_AZn)),
     DF120 |-> bitset(1, IF glonass_gnav_eph.d_P_3 THEN 1 ELSE 0),
     DF121 |->
         set_msb(bitset(11, round_fabs_div(glonass_gnav_eph.d_gamma_n, "TWO_N40")),
                 glo_sgn(glonass_gnav_eph.d_gamma_n)),
     DF122 |-> bitset(2, glonass_gnav_eph.d_P),
     DF123 |-> bitset(1, IF glonass_gnav_eph.d_l3rd_n THEN 1 ELSE 0),
     DF124 |->
         set_msb(bitset(22, round_fabs_div(glonass_gnav_eph.d_tau_n, "TWO_N30")),
                 glo_sgn(glonass_gnav_eph.d_tau_n)),
     DF125 |->
         set_msb(bitset(5, round_fabs_div(glonass_gnav_eph.d_Delta_tau_n, "TWO_N30")),
                 glo_sgn(glonass_gnav_eph.d_Delta_tau_n)),
     DF126 |-> bitset(5, glonass_gnav_eph.d_E_n),
     DF127 |-> bitset(1, IF glonass_gnav_eph.d_P_4 THEN 1 ELSE 0),
     DF128 |-> bitset(4, glonass_gnav_eph.d_F_T),
     DF129 |-> bitset(11, glonass_gnav_eph.d_N_T),
     DF130 |-> bitset(2, glonass_gnav_eph.d_M),
     \* fifth_str_additional_data_ind is 1 in print_MT1020.
     DF131 |-> bitset(1, 1),
     DF132 |-> bitset(11, glonass_gnav_utc_model.d_N_A),
     DF133 |->
         bitset(32, round_div(glonass_gnav_utc_model.d_tau_c, "TWO_N31")),
     DF134 |-> bitset(5, glonass_gnav_utc_model.d_N_4),
     DF135 |->
         bitset(22, round_double(glonass_gnav_utc_model.d_tau_gps) * Pow2(30)),
     DF136 |-> bitset(1, glonass_gnav_eph.d_l5th_n)]

\* The 360 digits Rtcm::print_MT1020 hands to build_message: the almanac
\* health and its indicator are 0, the additional-data indicator is 1.
print_MT1020_data(glonass_gnav_eph, glonass_gnav_utc_model) ==
    LET DFs == set_DF_MT1020(glonass_gnav_eph, glonass_gnav_utc_model)
    IN  set_DF002(1020)
        \o DFs.DF038
        \o DFs.DF040
        \o DFs.DF104
        \o DFs.DF105
        \o DFs.DF106
        \o DFs.DF107
        \o DFs.DF108
        \o DFs.DF109
        \o DFs.DF110
        \o DFs.DF111
        \o DFs.DF112
        \o DFs.DF113
        \o DFs.DF114
        \o DFs.DF115
        \o DFs.DF116
        \o DFs.DF117
        \o DFs.DF118
        \o DFs.DF119
        \o DFs.DF120
        \o DFs.DF121
        \o DFs.DF122
        \o DFs.DF123
        \o DFs.DF124
        \o DFs.DF125
        \o DFs.DF126
        \o DFs.DF127
        \o DFs.DF128
        \o DFs.DF129
        \o DFs.DF130
        \o DFs.DF131
        \o DFs.DF132
        \o DFs.DF133
        \o DFs.DF134
        \o DFs.DF135
        \o DFs.DF136
        \o bitset(7, 0)

\* Rtcm::print_MT1020: the frame returned.
print_MT1020(glonass_gnav_eph, glonass_gnav_utc_model) ==
    build_message(print_MT1020_data(glonass_gnav_eph, glonass_gnav_utc_model))

\* The statements of Rtcm::read_MT1020 after the message-number test, on
\* the fields of glonass_gnav_eph and glonass_gnav_utc_model together;
\* the statements after the additional-data indicator run when it is set.
read_MT1020_fields == <<
    [f |-> "i_satellite_slot_number", w |-> 6, conv |-> "uint"],
    [f |-> "i_satellite_freq_channel", w |-> 5, conv |-> "uint_minus_7"],
    [f |-> "", w |-> 1, conv |-> "local"],
    [f |-> "", w |-> 1, conv |-> "local"],
    [f |-> "d_P_1", w |-> 2, conv |-> "P_1"],
    [f |-> "d_t_k", w |-> 5, conv |-> "add_int_times", times |-> 3600],
    [f |-> "d_t_k", w |-> 6, conv |-> "add_int_times", times |-> 60],
    [f |-> "d_t_k", w |-> 1, conv |-> "add_int_times", times |-> 30],
    [f |-> "d_B_n", w |-> 1, conv |-> "uint"],
    [f |-> "d_P_2", w |-> 1, conv |-> "bool"],
    [f |-> "d_t_b", w |-> 7, conv |-> "uint_times", times |-> 15 * 60],
    [f |-> "d_VXn", w |-> 24, conv |-> "sint_lsb", lsb |-> "TWO_N20"],
    [f |-> "d_Xn", w |-> 27, conv |-> "sint_lsb", lsb |-> "TWO_N11"],
    [f |-> "d_AXn", w |-> 5, conv |-> "sint_lsb", lsb |-> "TWO_N30"],
    [f |-> "d_VYn", w |-> 24, conv |-> "sint_lsb", lsb |-> "TWO_N20"],
    [f |-> "d_Yn", w |-> 27, conv |-> "sint_lsb", lsb |-> "TWO_N11"],
    [f |-> "d_AYn", w |-> 5, conv |-> "sint_lsb", lsb |-> "TWO_N30"],
    [f |-> "d_VZn", w |-> 24, conv |-> "sint_lsb", lsb |-> "TWO_N20"],
    [f |-> "d_Zn", w |-> 27, conv |-> "sint_lsb", lsb |-> "TWO_N11"],
    [f |-> "d_AZn", w |-> 5, conv |-> "sint_lsb", lsb |-> "TWO_N30"],
    [f |-> "d_P_3", w |-> 1, conv |-> "bool"],
    [f |-> "d_gamma_n", w |-> 11, conv |-> "sint_lsb", lsb |-> "TWO_N30"],
    [f |-> "d_P", w |-> 2, conv |-> "uint"],
    [f |-> "d_l3rd_n", w |-> 1, conv |-> "bool"],
    [f |-> "d_tau_n", w |-> 22, conv |-> "sint_lsb", lsb |-> "TWO_N30"],
    [f |-> "d_Delta_tau_n", w |-> 5, conv |-> "sint_lsb", lsb |-> "TWO_N30"],
    [f |-> "d_E_n", w |-> 5, conv |-> "uint"],
    [f |-> "d_P_4", w |-> 1, conv |-> "bool"],
    [f |-> "d_F_T", w |-> 4, conv |-> "uint"],
    [f |-> "d_N_T", w |-> 11, conv |-> "uint"],
    [f |-> "d_M", w |-> 2, conv |-> "uint"],
    [f |-> "", w |-> 1, conv |-> "stop_unless_set"],
    [f |-> "d_N_A", w |-> 11, conv |-> "uint"],
    [f |-> "d_tau_c", w |-> 32, conv |-> "sint_lsb", lsb |-> "TWO_N31"],
    [f |-> "d_N_4", w |-> 5, conv |-> "uint"],
    [f |-> "d_tau_gps", w |-> 22, conv |-> "sint_lsb", lsb |-> "TWO_N30"],
    [f |-> "d_l5th_n", w |-> 1, conv |-> "uint"] >>

\* Rtcm::read_MT1020 on the records, given as their fields together.
read_MT1020(message, records) ==
    read_MT(message, 45, 1020, read_MT1020_fields, records)

-----------------------------------------------------------------------------
(* Observation messages: lock time.                                        *)

\* A value the model has no computation for.
unmodelled == CHOOSE q \in {} : TRUE

\* In this part obs_time is held in milliseconds (a double with at most
\* three decimals), a ptime as <<week, millisecond of the week>> counted
\* from 1999-08-22, and a uint32_t as an integer with the same low 32 bits
\* (a negative integer stands for a value of 2^31 or more).
week_ms == 604800000

\* Rtcm::compute_GPS_time (both overloads) and Rtcm::compute_Galileo_time.
\* The date 2019-04-07 lies 1024 weeks after 1999-08-22.
compute_time(eph, obs_time) ==
    LET anchor == IF eph.type = "Gps_Ephemeris" /\ eph.WN < 512
                  THEN 1024 ELSE 0
    IN  <<anchor + eph.WN + (obs_time \div week_ms), obs_time % week_ms>>

\* time_duration::total_seconds() of a - b converted to uint32_t: the whole
\* seconds, truncated towards zero.
total_seconds(a, b) ==
    LET ms == (a[1] - b[1]) * week_ms + (a[2] - b[2])
    IN  IF ms >= 0 THEN ms \div 1000 ELSE -((-ms) \div 1000)

\* What a read of last_lock_time[65 - PRN] outside the array can give: the
\* bytes found read as not_a_date_time ("unset"), they read as some time
\* ("garbage"), or the access faults ("crash").
UBReads == {"unset", "garbage", "crash"}

\* A lock_time that stores the current epoch at every call, and so returns
\* the time since the previous call for the slot.
lock_time_restamp(eph, obs_time, gnss_synchro, tables, ub) ==
    LET current_time == compute_time(eph, obs_time)
        key == <<eph.type, 65 - gnss_synchro.PRN>>
    IN  [s |-> IF key \in DOMAIN tables
               THEN total_seconds(current_time, tables[key]) ELSE 0,
         tables |-> [k \in DOMAIN tables \cup {key} |->
                        IF k = key THEN current_time ELSE tables[k]],
         event |-> "none", key |-> key,
              at |-> current_time]

\* Rtcm::lock_time, the overloads for Gps_Ephemeris, Gps_CNAV_Ephemeris and
\* Galileo_Ephemeris.  tables holds the slots of the last_lock_time arrays
\* that are not not_a_date_time, keyed by <<array, index>>.  The index
\* 65 - PRN is computed in uint32_t: for PRN > 65 it wraps to more than
\* 2^32 - 2^31 and lies outside any array; the arrays' declared size is
\* in rtcm.h, and the indices 0..65 are taken to lie inside.
lock_time(eph, obs_time, gnss_synchro, tables, ub) ==
    LET current_time == compute_time(eph, obs_time)
        sig_  == gnss_synchro.Signal
        array == CASE eph.type = "Gps_Ephemeris"      -> "gps_L1"
                   [] eph.type = "Gps_CNAV_Ephemeris" -> "gps_L2"
                   [] eph.type = "Galileo_Ephemeris"  ->
                         IF sig_ = "1B" THEN "gal_E1"
                         ELSE IF sig_ \in {"5X", "8X", "7X"} THEN "gal_E5"
                         ELSE "none"
        key   == <<array, 65 - gnss_synchro.PRN>>
    IN  IF array = "none"
        THEN [s |-> 0, tables |-> tables, event |-> "none", key |-> key,
              at |-> current_time]
        ELSE IF gnss_synchro.PRN > 65
        THEN [s |-> IF ub = "garbage" THEN -1 ELSE 0, tables |-> tables,
              event |-> IF ub = "crash" THEN "crash" ELSE "out_of_range",
              key |-> key, at |-> current_time]
        ELSE IF key \notin DOMAIN tables
        THEN [s |-> 0, tables |-> tables @@ (key :> current_time),
              event |-> "none", key |-> key,
              at |-> current_time]
        ELSE [s |-> total_seconds(current_time, tables[key]),
              tables |-> tables, event |-> "none", key |-> key,
              at |-> current_time]

\* Rtcm::lock_time_indicator (Table 3.4-2)
lock_time_indicator(lock_time_period_s) ==
    LET s == lock_time_period_s
        lt(n) == s >= 0 /\ s < n
    IN  IF s = 0 THEN 0
        ELSE IF lt(24) THEN s
        ELSE IF lt(72) THEN (s + 24) \div 2
        ELSE IF lt(168) THEN (s + 120) \div 4
        ELSE IF lt(360) THEN (s + 408) \div 8
        ELSE IF lt(744) THEN (s + 1176) \div 16
        ELSE IF lt(937) THEN (s + 3096) \div 32
        ELSE 127

\* An indicator whose buckets end one second late.
msm_lock_time_indicator_late(lock_time_period_s) ==
    LET below == {k \in 0..14 : lock_time_period_s >= 0
                                /\ lock_time_period_s <= Pow2(k + 5)}
    IN  IF below = {} THEN 15
        ELSE CHOOSE k \in below : \A j \in below : k <= j

\* Rtcm::msm_lock_time_indicator (Table 3.5-74): the first of the bounds
\* 32, 64, ..., 524288 the period is below, counted from 0, and 15 if it
\* is below none.
msm_lock_time_indicator(lock_time_period_s) ==
    LET below == {k \in 0..14 : lock_time_period_s >= 0
                                /\ lock_time_period_s < Pow2(k + 5)}
    IN  IF below = {} THEN 15
        ELSE CHOOSE k \in below : \A j \in below : k <= j

\* The record of one lock_time call: the slot, the current epoch, the
\* seconds returned, and the slot's content before and after (<<>> for
\* not_a_date_time).
lock_call(l, before) ==
    [key |-> l.key, at |-> l.at, s |-> l.s, event |-> l.event,
     stored |-> IF l.key \in DOMAIN before THEN <<before[l.key]>> ELSE <<>>,
     after  |-> IF l.key \in DOMAIN l.tables THEN <<l.tables[l.key]>>
                ELSE <<>>]

-----------------------------------------------------------------------------
(* Observation messages 1001-1004 and 1009-1012.                           *)

\* An observable snapshot (std::map<int32_t, Gnss_Synchro>) is held as the
\* sequence of its values in key order.  Pseudorange_m and
\* Carrier_phase_rads are 0 in every snapshot used, and CN0_dB_hz is a
\* whole number.

\* Rtcm::set_DF004: round(obs_time * 1000), at most 604799999.
set_DF004(obs_time) ==
    bitset(30, IF obs_time > 604799999 THEN 604799999 ELSE obs_time)

\* Rtcm::set_DF015 and Rtcm::set_DF020: the ratio in units of 0.25 dB-Hz,
\* at most 63.75.
set_DF015(gnss_synchro) ==
    bitset(8, IF gnss_synchro.CN0_dB_hz > 63 THEN 255
              ELSE 4 * gnss_synchro.CN0_dB_hz)

\* Rtcm::get_MT1001_4_header; set_DF006 counts the observables, at most 31.
get_MT1001_4_header(msg_number, obs_time, observables, ref_id, smooth_int, sync_flag, divergence_free) ==
    LET nsats == IF Len(observables) > 31 THEN 31 ELSE Len(observables)
    IN  set_DF002(msg_number) \o set_DF003(ref_id) \o set_DF004(obs_time)
        \o bitset(1, IF sync_flag THEN 1 ELSE 0) \o bitset(5, nsats)
        \o bitset(1, IF divergence_free THEN 1 ELSE 0)
        \o bitset(3, smooth_int)

\* Rtcm::get_MT1009_12_header; set_DF034 is round(obs_time * 1000), at most
\* 86400999, and set_DF035 counts the observables, at most 31.
get_MT1009_12_header(msg_number, obs_time, observables, ref_id, smooth_int, sync_flag, divergence_free) ==
    LET nsats == IF Len(observables) > 31 THEN 31 ELSE Len(observables)
        tk    == IF obs_time > 86400999 THEN 86400999 ELSE obs_time
    IN  set_DF002(msg_number) \o set_DF003(ref_id) \o bitset(27, tk)
        \o bitset(1, IF sync_flag THEN 1 ELSE 0) \o bitset(5, nsats)
        \o bitset(1, IF divergence_free THEN 1 ELSE 0)
        \o bitset(3, smooth_int)

\* Rtcm::get_MT1001_sat_content, get_MT1002_sat_content,
\* get_MT1003_sat_content and get_MT1004_sat_content for the pair
\* <<gnss_synchroL1, gnss_synchroL2>> (the same observable twice for 1001
\* and 1002), appended to st.data.  st carries the object's DF014 and
\* DF015, which get_MT1002_sat_content reads and only
\* get_MT1004_sat_content assigns, and the lock-time arrays.
get_MT_sat_content(msg_number, a, pair, st, ub) ==
    LET L1    == pair[1]
        L2    == pair[2]
        zero  == /\ L1.Pseudorange_m = 0 /\ L1.Carrier_phase_rads = 0
                 /\ L2.Pseudorange_m = 0 /\ L2.Carrier_phase_rads = 0
        lock1 == lock_time(a.gps_eph, a.obs_time, L1, st.tables, ub)
        lock2 == IF msg_number \in {1003, 1004} /\ lock1.event # "crash"
                 THEN lock_time(a.gps_cnav_eph, a.obs_time, L2,
                                lock1.tables, ub)
                 ELSE [s |-> 0, tables |-> lock1.tables, event |-> "skipped"]
        DF009  == bitset(6, L1.PRN)
        DF010  == bitset(1, 0)
        DF011  == IF zero THEN bitset(24, 0) ELSE unmodelled
        DF012  == IF zero THEN bitset(20, 0) ELSE unmodelled
        DF013  == bitset(7, lock_time_indicator(lock1.s))
        DF014  == IF msg_number # 1004 THEN st.DF.DF014
                  ELSE IF zero THEN bitset(8, 0) ELSE unmodelled
        DF015  == IF msg_number # 1004 THEN st.DF.DF015 ELSE set_DF015(L1)
        DF016_ == bitset(2, 0)
        DF017  == IF zero THEN bitset(14, 0) ELSE unmodelled
        DF018  == IF zero THEN bitset(20, 0) ELSE unmodelled
        DF019  == bitset(7, lock_time_indicator(lock2.s))
        DF020  == set_DF015(L2)
        L1part == DF009 \o DF010 \o DF011 \o DF012 \o DF013
        L2part == DF016_ \o DF017 \o DF018 \o DF019
        content ==
            CASE msg_number = 1001 -> L1part
              [] msg_number = 1002 -> L1part \o DF014 \o DF015
              [] msg_number = 1003 -> L1part \o L2part
              [] msg_number = 1004 -> L1part \o DF014 \o DF015 \o L2part
                                      \o DF020
              [] OTHER -> unmodelled
    IN  IF "crash" \in st.events THEN st
        ELSE [data   |-> st.data \o content,
              DF     |-> [st.DF EXCEPT !.DF014 = DF014, !.DF015 = DF015,
                                       !.DF019 = IF msg_number \in {1003, 1004}
                                                 THEN DF019 ELSE @],
              tables |-> lock2.tables,
              locks  |-> st.locks \o <<lock_call(lock1, st.tables)>>
                         \o (IF lock2.event = "skipped" THEN <<>>
                             ELSE <<lock_call(lock2, lock1.tables)>>),
              events |-> st.events
                         \cup ({lock1.event, lock2.event}
                               \ {"none", "skipped"})]

\* The loop over the observables that appends one block per satellite.
RECURSIVE get_MT_sat_contents(_, _, _, _, _)
get_MT_sat_contents(msg_number, a, pairs, st, ub) ==
    IF pairs = <<>> THEN st
    ELSE get_MT_sat_contents(msg_number, a, Tail(pairs),
             get_MT_sat_content(msg_number, a, Head(pairs), st, ub), ub)

\* The constellation and the signals each message selects.
MT_observables ==
    [n \in {1001, 1002, 1003, 1004, 1009, 1010, 1011, 1012} |->
        [System |-> IF n < 1009 THEN "G" ELSE "R",
         L1 |-> "1C",
         L2 |-> CASE n \in {1003, 1004} -> "2S"
                  [] n \in {1011, 1012} -> "2C"
                  [] OTHER -> ""]]

\* Rtcm::print_MT1001 .. print_MT1004 and print_MT1009 .. print_MT1012, up
\* to the message built: the frame, the object's fields and lock-time
\* arrays afterwards, and what happened on the way.  DF and tables are the
\* object's fields and arrays before the call.
print_MT_observables(msg_number, a, DF, tables, ub) ==
    LET sel == MT_observables[msg_number]
        observablesL1 ==
            SelectSeq(a.observables,
                      LAMBDA o : o.System = sel.System /\ o.Signal = sel.L1)
        observablesL2 ==
            SelectSeq(a.observables,
                      LAMBDA o : o.System = sel.System /\ o.Signal = sel.L2)
        both == {p \in (1..Len(observablesL1)) \X (1..Len(observablesL2)) :
                    observablesL2[p[2]].PRN = observablesL1[p[1]].PRN}
        before(p) == {q \in both : \/ q[1] < p[1]
                                   \/ q[1] = p[1] /\ q[2] < p[2]}
        common_observables ==
            IF sel.L2 = ""
            THEN [i \in 1..Len(observablesL1) |->
                     <<observablesL1[i], observablesL1[i]>>]
            ELSE [n \in 1..Cardinality(both) |->
                     LET p == CHOOSE q \in both :
                                  Cardinality(before(q)) = n - 1
                     IN  <<observablesL1[p[1]], observablesL2[p[2]]>>]
        observablesL1_with_L2 ==
            IF sel.L2 = "" THEN observablesL1
            ELSE SelectSeq(observablesL1,
                     LAMBDA o : \E j \in 1..Len(observablesL2) :
                                   observablesL2[j].PRN = o.PRN)
        header ==
            IF sel.System = "G"
            THEN get_MT1001_4_header(msg_number, a.obs_time,
                     observablesL1_with_L2, a.station_id, 0, FALSE, FALSE)
            ELSE get_MT1009_12_header(msg_number, a.obs_time,
                     observablesL1_with_L2, a.station_id, 0, FALSE, FALSE)
        st == get_MT_sat_contents(msg_number, a,
                  tuple_of(common_observables),
                  [data |-> header,
                   DF |-> [DF EXCEPT !.DF002 = set_DF002(msg_number)],
                   tables |-> tables, locks |-> <<>>, events |-> {}], ub)
    IN  [frame  |-> IF "crash" \in st.events THEN <<>>
                    ELSE build_message(st.data),
         parts  |-> IF "crash" \in st.events THEN <<>>
                    ELSE [header |-> header,
                          sat_data |-> SubSeq(st.data, Len(header) + 1,
                                              Len(st.data)),
                          signal_data |-> <<>>],
         DF     |-> st.DF,
         tables |-> st.tables,
         locks  |-> st.locks,
         events |-> st.events]

-----------------------------------------------------------------------------
(* Multiple Signal Messages.                                               *)

\* std::sort of the vector v by operator< on values (values[i] is what the
\* comparator reads of v[i]).  The order of elements that compare equal is
\* unspecified: ties says whether they keep their order ("kept") or come
\* out in the opposite order ("swapped").
std_sort(v, values, ties) ==
    LET first(j, i) == \/ values[j] < values[i]
                       \/ /\ values[j] = values[i]
                          /\ IF ties = "kept" THEN j < i ELSE j > i
        place(i) == 1 + Cardinality({j \in 1..Len(v) : first(j, i)})
    IN  tuple_of([p \in 1..Len(v) |->
                     v[CHOOSE i \in 1..Len(v) : place(i) = p]])

\* std::reverse
reverse(v) == tuple_of([i \in 1..Len(v) |-> v[Len(v) + 1 - i]])

\* The uint32_t 64 - PRN the comparator of sort_by_PRN_mask computes, as
\* a number in the same order: 64 - PRN wraps for a PRN above 64 to
\* 2^32 - (PRN - 64), which stands here as 2^31 - (PRN - 64).
PRN_mask_position(gnss_synchro) ==
    IF gnss_synchro.PRN <= 64 THEN 64 - gnss_synchro.PRN
    ELSE 2147483647 - (gnss_synchro.PRN - 65)

\* A sort by PRN mask position that leaves out the std::reverse.
sort_by_PRN_mask_unreversed(synchro_map, ties) ==
    std_sort(synchro_map,
             [i \in 1..Len(synchro_map) |->
                 PRN_mask_position(synchro_map[i])], ties)

\* Rtcm::sort_by_PRN_mask: std::sort by the uint32_t 64 - PRN, then
\* std::reverse.
sort_by_PRN_mask(synchro_map, ties) ==
    reverse(std_sort(synchro_map,
                     [i \in 1..Len(synchro_map) |->
                         PRN_mask_position(synchro_map[i])], ties))

\* Rtcm::gps_signal_map and Rtcm::galileo_signal_map, as
\* <<system, signal, value>>.
signal_map ==
    {<<"G", "1C", 2>>, <<"G", "1P", 3>>, <<"G", "1W", 4>>, <<"G", "2C", 8>>,
     <<"G", "2P", 9>>, <<"G", "2W", 10>>, <<"G", "2S", 15>>,
     <<"G", "2L", 16>>, <<"G", "2X", 17>>, <<"G", "5I", 22>>,
     <<"G", "5Q", 23>>, <<"G", "5X", 24>>, <<"G", "L5", 24>>,
     <<"E", "1C", 2>>, <<"E", "1A", 3>>, <<"E", "1B", 4>>, <<"E", "1X", 5>>,
     <<"E", "1Z", 6>>, <<"E", "6C", 8>>, <<"E", "6A", 9>>, <<"E", "6B", 10>>,
     <<"E", "6X", 11>>, <<"E", "6Z", 12>>, <<"E", "7I", 14>>,
     <<"E", "7Q", 15>>, <<"E", "7X", 16>>, <<"E", "8I", 18>>,
     <<"E", "8Q", 19>>, <<"E", "8X", 20>>, <<"E", "5I", 22>>,
     <<"E", "5Q", 23>>, <<"E", "5X", 24>>, <<"E", "E6", 10>>}

\* Rtcm::sort_by_signal: std::sort by the signal's value in its system's
\* map, 0 for a system other than "G" and "E".  The comparator reads the
\* map with at(), which throws std::out_of_range for a signal the map does
\* not have; std::sort calls the comparator when the vector has two
\* elements or more.
sort_by_signal(synchro_map, ties) ==
    LET ids(o) == {t[3] : t \in {u \in signal_map : /\ u[1] = o.System
                                                    /\ u[2] = o.Signal}}
        value(o) == IF o.System \in {"G", "E"}
                    THEN CHOOSE n \in ids(o) : TRUE ELSE 0
        threw == /\ Len(synchro_map) >= 2
                 /\ \E i \in 1..Len(synchro_map) :
                       /\ synchro_map[i].System \in {"G", "E"}
                       /\ ids(synchro_map[i]) = {}
    IN  [threw  |-> threw,
         my_vec |-> IF threw THEN <<>>
                    ELSE IF Len(synchro_map) < 2 THEN synchro_map
                    ELSE std_sort(synchro_map,
                                  [i \in 1..Len(synchro_map) |->
                                      value(synchro_map[i])], ties)]

\* The signal mask positions Rtcm::set_DF395 sets, as
\* <<system, signal, position>>.
mask_positions ==
    {<<"G", "1C", 32 - 2>>, <<"G", "2S", 32 - 15>>, <<"G", "5X", 32 - 24>>,
     <<"E", "1B", 32 - 4>>, <<"E", "5X", 32 - 24>>, <<"E", "7X", 32 - 16>>,
     <<"R", "1C", 32 - 2>>, <<"R", "2C", 32 - 8>>}

\* The mask positions of the observables of the given systems.
positions_of(gnss_synchro, systems) ==
    {t[3] : t \in {u \in mask_positions :
                      /\ u[1] \in systems
                      /\ \E i \in 1..Len(gnss_synchro) :
                            /\ gnss_synchro[i].System = u[1]
                            /\ gnss_synchro[i].Signal = u[2]}}

\* Rtcm::set_DF394: bit 64 - PRN of the satellite mask for every
\* observable; std::bitset::set throws std::out_of_range for a position
\* outside 0..63.  The mask is written most significant bit first.
set_DF394(gnss_synchro) ==
    [threw |-> \E i \in 1..Len(gnss_synchro) :
                  gnss_synchro[i].PRN \notin 1..64,
     DF394 |-> tuple_of([d \in 1..64 |->
                  IF \E i \in 1..Len(gnss_synchro) : gnss_synchro[i].PRN = d
                  THEN 1 ELSE 0])]

\* Rtcm::set_DF395: the signal mask, most significant bit first.
set_DF395(gnss_synchro) ==
    tuple_of([d \in 1..32 |->
                 IF 32 - d \in positions_of(gnss_synchro, {"G", "E", "R"})
                 THEN 1 ELSE 0])

\* The elements of a set of numbers, largest first.
descending(S) ==
    tuple_of([p \in 1..Cardinality(S) |->
                 CHOOSE x \in S : Cardinality({y \in S : y > x}) = p - 1])

\* Rtcm::set_DF396: the cell mask, satellite by satellite in ascending PRN
\* and within a satellite signal by signal from the mask's most
\* significant bit.  list_of_signals is filled for the GPS and Galileo
\* signals only, and a cell's test reads list_of_signals.at(row) once an
\* observable is of one of them: with fewer entries than rows that throws
\* std::out_of_range.
set_DF396(observables) ==
    LET num_signals == Cardinality(positions_of(observables, {"G", "E", "R"}))
        num_satellites == Cardinality({observables[i].PRN :
                                          i \in 1..Len(observables)})
        list_of_sats == reverse(descending({observables[i].PRN :
                                               i \in 1..Len(observables)}))
        list_of_signals == descending(positions_of(observables, {"G", "E"}))
        value(row, sat) ==
            \E i \in 1..Len(observables) :
               /\ positions_of(<<observables[i]>>, {"G", "E"})
                     = {list_of_signals[row]}
               /\ observables[i].PRN = list_of_sats[sat]
    IN  IF num_signals = 0 \/ num_satellites = 0
        THEN [threw |-> FALSE, DF396 |-> <<>>]
        ELSE IF /\ Len(list_of_signals) < num_signals
                /\ positions_of(observables, {"G", "E"}) # {}
        THEN [threw |-> TRUE, DF396 |-> <<>>]
        ELSE [threw |-> FALSE,
              DF396 |-> tuple_of([c \in 1..(num_satellites * num_signals) |->
                           IF /\ ((c - 1) % num_signals) + 1
                                    <= Len(list_of_signals)
                              /\ value(((c - 1) % num_signals) + 1,
                                       ((c - 1) \div num_signals) + 1)
                           THEN 1 ELSE 0])]

\* Rtcm::get_MSM_header.  It takes observables.begin()->second.System
\* whether or not the map has an element; of an empty map that is the
\* end iterator, and the read gives whatever char lies there.
\* std::string(count, ch) is then built with that char as the count: a
\* non-negative one gives a string (ub = "unset" or "crash"), a negative
\* one a count above max_size() and std::length_error (ub = "garbage").
\* The string is never "R", so the epoch time is DF004 in every message.
\* set_DF394 and set_DF396 throw std::out_of_range as described there.
get_MSM_header(msg_number, a, ub) ==
    LET observables == a.observables
        first == IF observables = <<>> THEN {"end_dereferenced"} ELSE {}
        DF394 == set_DF394(observables)
        DF395 == set_DF395(observables)
        DF396 == set_DF396(observables)
        DF418 == IF a.smooth_int < 0 THEN <<1, 1, 1>>
                 ELSE IF a.smooth_int = 0 THEN <<0, 0, 0>>
                 ELSE unmodelled
        length_error == observables = <<>> /\ ub = "garbage"
        out_of_range == ~length_error /\ (DF394.threw \/ DF396.threw)
    IN  [events |-> first
                    \cup (IF length_error THEN {"length_error"} ELSE {})
                    \cup (IF out_of_range THEN {"out_of_range"} ELSE {}),
         threw  |-> length_error \/ out_of_range,
         header |-> IF length_error \/ out_of_range THEN <<>>
                    ELSE set_DF002(msg_number) \o set_DF003(a.station_id)
                         \o set_DF004(a.obs_time)
                         \o bitset(1, IF a.more_messages THEN 1 ELSE 0)
                         \o bitset(3, 0) \o bitset(7, 0)
                         \o bitset(2, a.clock_steering_indicator)
                         \o bitset(1, IF a.divergence_free THEN 1 ELSE 0)
                         \o bitset(2, a.external_clock_indicator)
                         \o DF418 \o DF394.DF394 \o DF395 \o DF396.DF396]

\* In an observable of a snapshot, Pseudorange_m is a whole number r of
\* units of SPEED_OF_LIGHT_M_S * 0.001 * TWO_N10 metres: the rough range
\* round(Pseudorange_m / meters_to_miliseconds / TWO_N10) is r and the
\* remainder Pseudorange_m - rough_range_m is 0.

\* Rtcm::set_DF397: the whole milliseconds of the rough range, 255 for no
\* range or one outside 0..255 ms.
set_DF397(gnss_synchro) ==
    LET r == gnss_synchro.Pseudorange_m
    IN  bitset(8, IF r <= 0 \/ r > 255 * 1024 THEN 255 ELSE r \div 1024)

\* Rtcm::set_DF398: the rough range modulo 1 ms in units of 2^-10 ms.
set_DF398(gnss_synchro) ==
    LET r == gnss_synchro.Pseudorange_m
    IN  bitset(10, IF r <= 0 \/ r > 255 * 1024 THEN 0 ELSE r % 1024)

\* Rtcm::set_DF400: the fine pseudorange, -16384 for a remainder of 0.
set_DF400(gnss_synchro) == bitset(15, -16384)

\* Rtcm::set_DF401: the fine phase range, -2097152 when
\* Carrier_phase_rads and the rough range are 0.
set_DF401(gnss_synchro) ==
    IF gnss_synchro.Pseudorange_m = 0 /\ gnss_synchro.Carrier_phase_rads = 0
    THEN bitset(22, -2097152) ELSE unmodelled

\* Rtcm::set_DF403: the rounded CN0.
set_DF403(gnss_synchro) == bitset(6, gnss_synchro.CN0_dB_hz)

\* Rtcm::set_DF402: the lock time of the observable by its signal, 0 for a
\* signal of no lock_time call.  (The GLONASS call computes its time in
\* Glonass_Gnav_Ephemeris.)
set_DF402(a, gnss_synchro, tables, ub) ==
    LET o == gnss_synchro
        eph == CASE o.Signal = "1C" /\ o.System = "G" -> a.gps_eph
                 [] o.Signal = "2S" /\ o.System = "G" -> a.gps_cnav_eph
                 [] o.Signal \in {"1B", "5X", "7X", "8X"} -> a.gal_eph
                 [] o.Signal \in {"1C", "2C"} /\ o.System = "R" -> unmodelled
                 [] OTHER -> [type |-> "none"]
        lock == IF eph.type = "none"
                THEN [s |-> 0, tables |-> tables, event |-> "none"]
                ELSE lock_time(eph, a.obs_time, o, tables, ub)
    IN  [DF402  |-> bitset(4, msm_lock_time_indicator(lock.s)),
         locks  |-> IF eph.type = "none" THEN <<>>
                    ELSE <<lock_call(lock, tables)>>,
         tables |-> lock.tables,
         events |-> {lock.event} \ {"none"}]

\* The observables of the map with the first of every PRN kept, sorted by
\* PRN mask position: the satellites of the satellite data.
MSM_satellites(observables, ties) ==
    LET kept == SelectSeq([i \in 1..Len(observables) |-> i],
                          LAMBDA i : \A j \in 1..(i - 1) :
                                        observables[j].PRN
                                           # observables[i].PRN)
    IN  sort_by_PRN_mask([n \in 1..Len(kept) |-> observables[kept[n]]],
                         ties)

\* The observables of the map sorted by signal, reversed, and sorted by
\* PRN mask position: the cells of the signal data.
MSM_cells(observables, ties) ==
    LET ordered_by_signal == sort_by_signal(observables, ties)
    IN  [threw |-> ordered_by_signal.threw,
         cells |-> sort_by_PRN_mask(reverse(ordered_by_signal.my_vec), ties)]

\* The strings of fs, each of w digits, one after the other.
concatenated(fs, w) ==
    tuple_of([d \in 1..(w * Len(fs)) |->
                 fs[((d - 1) \div w) + 1][((d - 1) % w) + 1]])

\* Rtcm::get_MSM_1_content_sat_data
get_MSM_1_content_sat_data(observables, ties) ==
    LET ordered_by_PRN_pos == MSM_satellites(observables, ties)
    IN  concatenated([n \in 1..Len(ordered_by_PRN_pos) |->
                         set_DF398(ordered_by_PRN_pos[n])], 10)

\* Rtcm::get_MSM_4_content_sat_data: every DF397, then every DF398.
get_MSM_4_content_sat_data(observables, ties) ==
    LET ordered_by_PRN_pos == MSM_satellites(observables, ties)
    IN  concatenated([n \in 1..Len(ordered_by_PRN_pos) |->
                         set_DF397(ordered_by_PRN_pos[n])], 8)
        \o concatenated([n \in 1..Len(ordered_by_PRN_pos) |->
                            set_DF398(ordered_by_PRN_pos[n])], 10)

\* Rtcm::get_MSM_1_content_signal_data: DF400 of every cell.
get_MSM_1_content_signal_data(observables, ties) ==
    LET c == MSM_cells(observables, ties)
    IN  [threw |-> c.threw,
         data  |-> concatenated([n \in 1..Len(c.cells) |->
                                    set_DF400(c.cells[n])], 15)]

\* The set_DF402 calls of get_MSM_4_content_signal_data's loop, cell by
\* cell, each on the lock-time arrays the one before left.
RECURSIVE MSM_locks(_, _, _, _)
MSM_locks(a, cells, st, ub) ==
    IF cells = <<>> \/ "crash" \in st.events THEN st
    ELSE LET l == set_DF402(a, Head(cells), st.tables, ub)
         IN  MSM_locks(a, Tail(cells),
                       [DF402  |-> st.DF402 \o l.DF402,
                        locks  |-> st.locks \o l.locks,
                        tables |-> l.tables,
                        events |-> st.events \cup l.events], ub)

\* Rtcm::get_MSM_4_content_signal_data: every DF400, then every DF401,
\* DF402, DF420 (0) and DF403.
get_MSM_4_content_signal_data(a, tables, ub) ==
    LET c  == MSM_cells(a.observables, a.ties)
        st == MSM_locks(a, c.cells,
                        [DF402 |-> <<>>, locks |-> <<>>, tables |-> tables,
                         events |-> {}], ub)
    IN  [threw  |-> c.threw,
         data   |-> concatenated([n \in 1..Len(c.cells) |->
                                     set_DF400(c.cells[n])], 15)
                    \o concatenated([n \in 1..Len(c.cells) |->
                                        set_DF401(c.cells[n])], 22)
                    \o st.DF402
                    \o tuple_of([i \in 1..Len(c.cells) |-> 0])
                    \o concatenated([n \in 1..Len(c.cells) |->
                                        set_DF403(c.cells[n])], 6),
         locks  |-> st.locks,
         tables |-> st.tables,
         events |-> st.events]

\* Rtcm::print_MSM_1 .. print_MSM_7 (k says which), up to the message
\* built.  For an empty map every content function returns the empty
\* string; of the maps with an element, those given to print_MSM_1 and
\* print_MSM_4 are modelled.  parts holds the header, the satellite data
\* and the signal data of the frame.
print_MSM(k, a, DF, tables, ub) ==
    LET msg_number == IF a.gal_eph.PRN # 0 THEN 1090 + k
                      ELSE IF a.glo_gnav_eph.PRN # 0 THEN 1080 + k
                      ELSE 1070 + k
        h == get_MSM_header(msg_number, a, ub)
        sat_data ==
            IF a.observables = <<>> THEN <<>>
            ELSE IF k = 1
            THEN get_MSM_1_content_sat_data(a.observables, a.ties)
            ELSE IF k = 4
            THEN get_MSM_4_content_sat_data(a.observables, a.ties)
            ELSE unmodelled
        c == IF a.observables = <<>>
             THEN [threw |-> FALSE, data |-> <<>>, locks |-> <<>>,
                   tables |-> tables, events |-> {}]
             ELSE IF k = 1
             THEN [threw  |-> get_MSM_1_content_signal_data(
                                  a.observables, a.ties).threw,
                   data   |-> get_MSM_1_content_signal_data(
                                  a.observables, a.ties).data,
                   locks |-> <<>>, tables |-> tables, events |-> {}]
             ELSE IF k = 4
             THEN get_MSM_4_content_signal_data(a, tables, ub)
             ELSE unmodelled
        threw  == h.threw \/ c.threw
        events == h.events
                  \cup (IF h.threw THEN {}
                        ELSE IF c.threw THEN {"out_of_range"}
                        ELSE c.events)
        built  == ~threw /\ "crash" \notin events
    IN  [frame  |-> IF built
                    THEN build_message(h.header \o sat_data \o c.data)
                    ELSE <<>>,
         parts  |-> IF built
                    THEN [header |-> h.header, sat_data |-> sat_data,
                          signal_data |-> c.data]
                    ELSE <<>>,
         DF     |-> IF h.threw THEN DF
                    ELSE [DF EXCEPT !.DF002 = set_DF002(msg_number)],
         tables |-> IF threw THEN tables ELSE c.tables,
         locks  |-> IF threw THEN <<>> ELSE c.locks,
         events |-> events]

-----------------------------------------------------------------------------
(* Inputs the operations are exercised on.                                 *)

\* Width of the frame's length field: std::bitset<10> in build_message.
LengthFieldBits == 10

\* The longest payload whose byte count fits the length field.
MaxPayloadBits == 8 * (Pow2(LengthFieldBits) - 1)

\* Payload lengths up to MaxShortBits are all tried, and so are the
\* NearMax lengths on either side of MaxPayloadBits.
MaxShortBits == 24
NearMax == 1

\* A session makes at most MaxPrints print calls and at most MaxStops calls
\* of stop_server.
MaxPrints == 3
MaxStops == 2

PayloadPatterns == {"zeros", "ones", "mixed"}

\* The payloads given to build_message, as <<length, pattern>>.
Payloads ==
    ((1..MaxShortBits) \X PayloadPatterns)
    \cup ((((MaxPayloadBits - NearMax)..(MaxPayloadBits + NearMax))
           \cup {MaxPayloadBits \div 2}) \X {"mixed"})

\* A payload of L digits.
Payload(L, pattern) ==
    tuple_of([i \in 1..L |->
        CASE pattern = "zeros" -> 0
          [] pattern = "ones"  -> 1
          [] pattern = "mixed" -> IF (i * i + i \div 3) % 3 = 0 THEN 1 ELSE 0])

\* The byte string with digit pos (1 = first digit of the first byte)
\* complemented.
flip_bit(message, pos) ==
    LET at   == ((pos - 1) \div 8) + 1
        unit == Pow2(7 - ((pos - 1) % 8))
    IN  tuple_of([i \in 1..Len(message) |->
            IF i # at THEN message[i]
            ELSE IF (message[i] \div unit) % 2 = 1 THEN message[i] - unit
            ELSE message[i] + unit])

\* The digits of a frame with digits from+1 .. from+Len(field) replaced.
with_digits(message_bin, from, field) ==
    SubSeq(message_bin, 1, from) \o field
    \o SubSeq(message_bin, from + Len(field) + 1, Len(message_bin))

\* The frame as a transmission fault or a foreign sender may present it.
\* "intact"; "flip": one digit complemented; "prefix": only the first
\* keep bytes; "truncate": the first keep bytes followed by their own
\* correct CRC; "length" / "number": the length field / the message number
\* rewritten and the CRC recomputed; "length_flip": the length field
\* rewritten, the CRC recomputed, then one digit complemented.
mangle(frame, m) ==
    LET message_bin == binary_data_to_bin(frame)
        body        == SubSeq(message_bin, 1, Len(message_bin) - 24)
    IN  CASE m.kind = "intact"   -> frame
          [] m.kind = "flip"     -> flip_bit(frame, m.at)
          [] m.kind = "prefix"   -> SubSeq(frame, 1, m.at)
          [] m.kind = "truncate" ->
                add_CRC(binary_data_to_bin(SubSeq(frame, 1, m.at)))
          [] m.kind = "length"   ->
                add_CRC(with_digits(body, 14, bitset(10, m.at)))
          [] m.kind = "number"   ->
                add_CRC(with_digits(body, 24, bitset(12, m.at)))
          [] m.kind = "length_flip" ->
                flip_bit(add_CRC(with_digits(body, 14, bitset(10, m.at))), 30)

\* Digit positions at which a frame of n digits is corrupted: every
\* position of a frame of at most MaxFlipAllBytes bytes, and otherwise the
\* ends of the header, of the payload and of the checksum.
MaxFlipAllBytes == 9

FlipPositions(n) ==
    IF n <= 8 * MaxFlipAllBytes THEN 1..n
    ELSE {p \in {1, 8, 9, 14, 15, 24, 25, 36, 37, n \div 2,
                 n - 25, n - 24, n - 23, n - 1, n} : p >= 1 /\ p <= n}

\* Byte counts at which a frame of n bytes is cut short.
CutLengths(n) ==
    {k \in 3..(n - 4) : k <= 9 \/ k = n \div 2 \/ k >= n - 6}

\* Declared lengths and message numbers written over the frame's own.
ForgedLengths == {0, 19, 45, 61, 62}
ForgedNumbers == {0, 1005, 1019, 1020, 1045}

\* The faults a decoder is presented with in a frame of its own message
\* type (own), and in any other frame: of those, the ones that bring the
\* frame nearer to what the decoder expects.
Mangles(frame, own, expected_length, msg_number) ==
    {[kind |-> "intact", at |-> 0]}
    \cup {[kind |-> "prefix", at |-> k] :
             k \in {j \in (IF own THEN {0, 1, 2, 3, Len(frame) - 1}
                           ELSE {0, 2}) : j >= 0 /\ j <= Len(frame)}}
    \cup (IF Len(frame) >= 6
          THEN {[kind |-> "length", at |-> v] :
                   v \in IF own THEN ForgedLengths ELSE {expected_length}}
               \cup {[kind |-> "number", at |-> v] :
                        v \in IF own THEN ForgedNumbers ELSE {msg_number}}
          ELSE {})
    \cup (IF own
          THEN {[kind |-> "flip", at |-> p] :
                   p \in {q \in {1, 15, 24, 30, 37, 8 * Len(frame) - 24,
                                 8 * Len(frame)} :
                             q >= 1 /\ q <= 8 * Len(frame)}}
               \cup {[kind |-> "truncate", at |-> k] :
                        k \in CutLengths(Len(frame))}
               \cup {[kind |-> "length_flip", at |-> 0]}
          ELSE {})

\* The calls of a decoder on a frame, as <<fault, record given>>: every
\* fault with the record fresh, and on a frame of its own type also the
\* faults the header tests answer with a record holding earlier values
\* (dirty).
ReadCases(frame, own, expected_length, msg_number, fresh, dirty) ==
    {<<m, fresh>> : m \in Mangles(frame, own, expected_length, msg_number)}
    \cup (IF own
          THEN {<<m, dirty>> :
                   m \in {x \in Mangles(frame, own, expected_length,
                                        msg_number) :
                             x.kind \in {"intact", "number", "length",
                                         "flip"}}}
          ELSE {})

-----------------------------------------------------------------------------
(* State.                                                                  *)

VARIABLES
    pc,        \* the caller's position: it obtains a frame from an encoder
               \* ("encode"), hands it to check_CRC or a decoder ("call"),
               \* and is finished ("done"); or it makes one call after
               \* another on the object ("session") until the process is
               \* gone ("terminated")
    DF,        \* the Rtcm object's data fields that a later call can
               \* observe: DF002, which read_MT1005 assigns, and DF292,
               \* which print_MT1045 reads without assigning it, and
               \* DF014 and DF015, which print_MT1002 reads without
               \* assigning them (every other field an encoder uses it
               \* assigns first)
    produced,  \* the last frame an encoder returned, and from what
    call,      \* the last check_CRC / read_MTxxxx call and its outcome
    server_is_running,   \* the member of that name
    tq_joinable,         \* whether the thread tq run_server starts is
                         \* joinable
    rtcm_message_queue,  \* every string pushed onto the queue so far, in
                         \* order (the reader thread takes them off the
                         \* other end)
    printed,   \* the print calls made so far: what each returned and
               \* whether the server was running
    last_lock_time   \* the slots of the arrays gps_L1_last_lock_time,
                     \* gps_L2_last_lock_time, gal_E1_last_lock_time and
                     \* gal_E5_last_lock_time that hold a time, keyed by
                     \* <<array, index>>; every other slot is
                     \* not_a_date_time

server_vars == <<server_is_running, tq_joinable, rtcm_message_queue>>
vars == <<pc, DF, produced, call, server_vars, printed, last_lock_time>>

\* The record of a call: what it was given and what came of it.
Outcome(name, m, message, before, r) ==
    [name |-> name, message |-> message, fault |-> m.kind, at |-> m.at,
     result |-> r.result, check |-> r.check, before |-> before,
     after |-> r.rec]

NoCall == [name |-> "none", message |-> <<>>, fault |-> "none", at |-> 0,
           result |-> "none", check |-> "none", before |-> <<>>,
           after |-> <<>>]

\* A default-constructed std::bitset holds zeros.
Init ==
    /\ pc = "encode"
    /\ DF = [DF002 |-> bitset(12, 0), DF292 |-> bitset(14, 0),
             DF014 |-> bitset(8, 0), DF015 |-> bitset(8, 0),
             DF019 |-> bitset(7, 0), DF024 |-> bitset(1, 0)]
    /\ last_lock_time = <<>>
    /\ produced = [by |-> "none", args |-> <<>>, frame |-> <<>>]
    /\ call = NoCall
    /\ server_is_running = FALSE
    /\ tq_joinable = FALSE
    /\ rtcm_message_queue = <<>>
    /\ printed = <<>>

\* A caller may ask for a frame: once, or in a session while fewer than
\* MaxPrints print calls have been made.
CanPrint ==
    IF pc = "session" THEN Len(printed) < MaxPrints ELSE pc = "encode"
AfterPrint == IF pc = "session" THEN "session" ELSE "call"

\* A print call that pushes whatever the state of the server.
Returns_pushing(by, frames) ==
    /\ rtcm_message_queue' = rtcm_message_queue \o frames
    /\ printed' = Append(printed, [by |-> by, frames |-> frames,
                                   running |-> server_is_running])
    /\ UNCHANGED <<server_is_running, tq_joinable>>

\* The end of every print_MTxxxx: the frame is pushed onto the queue if
\* the server is running, and returned.
Returns(by, frames) ==
    /\ rtcm_message_queue' = IF server_is_running
                             THEN rtcm_message_queue \o frames
                             ELSE rtcm_message_queue
    /\ printed' = Append(printed, [by |-> by, frames |-> frames,
                                   running |-> server_is_running])
    /\ UNCHANGED <<server_is_running, tq_joinable>>

\* build_message(data) for a payload of L digits.
BuildMessage ==
    \E p \in Payloads :
        /\ pc = "encode"
        /\ pc' = "call"
        /\ produced' = [by |-> "build_message",
                        args |-> [L |-> p[1], pattern |-> p[2]],
                        frame |-> build_message(Payload(p[1], p[2]))]
        /\ call' = NoCall
        /\ UNCHANGED <<last_lock_time, DF, server_vars, printed>>

CheckCRCCall(m, message) ==
    Outcome("check_CRC", m, message, <<>>,
            [result |-> IF check_CRC_throws(message) THEN "out_of_range"
                        ELSE IF check_CRC(message) THEN "true" ELSE "false",
             check |-> "crc", rec |-> <<>>])

\* check_CRC(message) on the last frame, intact or with one digit
\* complemented, or on the first few bytes of it.
CheckCRC ==
    /\ pc = "call"
    /\ pc' = "done"
    /\ \E m \in {[kind |-> "intact", at |-> 0]}
                \cup {[kind |-> "flip", at |-> p] :
                         p \in FlipPositions(8 * Len(produced.frame))}
                \cup {[kind |-> "prefix", at |-> k] : k \in 0..3} :
          call' = CheckCRCCall(m, mangle(produced.frame, m))
    /\ UNCHANGED <<last_lock_time, DF, produced, server_vars, printed>>

-----------------------------------------------------------------------------
(* Message type 1005: calls.                                               *)

\* Reference station ids given to print_MT1005.
RefIds == {0, 1, 2003, 4095}
RefIdOf == <<0, 1, 2003, 4095>>

\* Antenna coordinates in units of 0.0001 m, as wide integers: zero, one
\* unit either side of it, the ends of the 38-bit two's-complement range
\* and the three coordinates of get_MT1005_test.
Coordinates == <<
    <<0, 0>>, <<0, 1>>, <<-1, 65535>>,
    <<2097151, 65535>>, <<-2097152, 0>>,
    <<169998, 57071>>, <<-740163, 25260>>, <<606616, 28467>> >>

\* The argument list of print_MT1005 with reference id r, flags g, the
\* coordinates from position i of Coordinates on, and the remaining three
\* inputs set from i.
MT1005Arg(r, g, i) ==
    [ref_id |-> r, gps |-> g[1], glonass |-> g[2], galileo |-> g[3],
     non_physical |-> ((i + 2) % 2 = 1),
     single_oscillator |-> ((i + 2) % 4 >= 2),
     quarter_cycle_indicator |-> (i + 2) % 4,
     ecef_x |-> Coordinates[i],
     ecef_y |-> Coordinates[(i % Len(Coordinates)) + 1],
     ecef_z |-> Coordinates[((i + 1) % Len(Coordinates)) + 1]]

\* Station 2003, GPS only, physical, single-oscillator 0, quarter-cycle 0,
\* ECEF (1114104.5999, -4850729.7108, 3975521.4643) m.
MT1005TestArgs ==
    [ref_id |-> 2003, gps |-> TRUE, glonass |-> FALSE, galileo |-> FALSE,
     non_physical |-> FALSE, single_oscillator |-> FALSE,
     quarter_cycle_indicator |-> 0, ecef_x |-> <<169998, 57071>>,
     ecef_y |-> <<-740163, 25260>>, ecef_z |-> <<606616, 28467>>]

\* The combinations of the GPS, GLONASS and Galileo indicators.
FlagsOf == <<
    <<FALSE, FALSE, FALSE>>, <<TRUE, FALSE, FALSE>>, <<FALSE, TRUE, FALSE>>,
    <<FALSE, FALSE, TRUE>>, <<TRUE, TRUE, FALSE>>, <<TRUE, FALSE, TRUE>>,
    <<FALSE, TRUE, TRUE>>, <<TRUE, TRUE, TRUE>> >>

\* Argument lists of print_MT1005: every coordinate triple with two flag
\* combinations, and the triple of get_MT1005_test with every reference id
\* and with every flag combination.
MT1005Args ==
    {MT1005Arg(RefIdOf[(i % 4) + 1], FlagsOf[((i + k) % 8) + 1], i) :
        i \in 1..Len(Coordinates), k \in {0, 5}}
    \cup {MT1005Arg(r, FlagsOf[2], 6) : r \in RefIds}
    \cup {MT1005Arg(2003, FlagsOf[g], 6) : g \in 1..Len(FlagsOf)}

\* The output parameters of read_MT1005 as the caller holds them before
\* the call: freshly zeroed, or holding earlier values.
MT1005Outs ==
    [fresh |-> [ref_id |-> 0, ecef_x |-> <<0, 0>>, ecef_y |-> <<0, 0>>,
                ecef_z |-> <<0, 0>>, gps |-> FALSE, glonass |-> FALSE,
                galileo |-> FALSE],
     dirty |-> [ref_id |-> 77, ecef_x |-> <<5, 5>>, ecef_y |-> <<-6, 6>>,
                ecef_z |-> <<7, 7>>, gps |-> TRUE, glonass |-> TRUE,
                galileo |-> TRUE]]

\* print_MT1005(ref_id, ecef_x, ..., quarter_cycle_indicator)
PrintMT1005Of(a) ==
    /\ CanPrint
    /\ pc' = AfterPrint
    /\ produced' = [by |-> "print_MT1005", args |-> a,
                    frame |-> print_MT1005(a)]
    /\ UNCHANGED last_lock_time
    /\ DF' = [DF EXCEPT !.DF002 = set_DF002(1005),
                        !.DF024 = set_DF024(a.galileo)]
    /\ call' = NoCall
    /\ Returns("print_MT1005", <<produced'.frame>>)

PrintMT1005 == \E a \in MT1005Args : PrintMT1005Of(a)

\* The frames a decoder is handed: any frame an encoder of a message made,
\* and of the frames build_message made the mixed ones.
Readable ==
    IF produced.by = "build_message"
    THEN produced.args.pattern = "mixed" ELSE TRUE

ReadMT1005Call(m, message, before) ==
    Outcome("read_MT1005", m, message, before, read_MT1005(message, before))

\* print_MT1005_test(): the frame is returned and never pushed.
PrintMT1005Test ==
    /\ CanPrint
    /\ pc' = AfterPrint
    /\ produced' = [by |-> "print_MT1005_test", args |-> <<>>,
                    frame |-> print_MT1005_test]
    /\ UNCHANGED last_lock_time
    /\ DF' = [DF EXCEPT !.DF002 = set_DF002(1005),
                        !.DF024 = set_DF024(FALSE)]
    /\ call' = NoCall
    /\ printed' = Append(printed, [by |-> "print_MT1005_test",
                                   frames |-> <<produced'.frame>>,
                                   running |-> server_is_running])
    /\ UNCHANGED server_vars

\* read_MT1005(message, ref_id, ecef_x, ecef_y, ecef_z, gps, glonass,
\* galileo); set_DF002(1005) runs once the CRC and the length are accepted.
ReadMT1005 ==
    /\ pc = "call"
    /\ pc' = "done"
    /\ Readable
    /\ \E c \in ReadCases(produced.frame,
                           produced.by \in {"print_MT1005",
                                            "print_MT1005_test"},
                           19, 1005, MT1005Outs.fresh, MT1005Outs.dirty) :
          /\ call' = ReadMT1005Call(c[1], mangle(produced.frame, c[1]), c[2])
          /\ UNCHANGED last_lock_time
          /\ DF' = IF call'.check \in {"number", "none"}
                   THEN [DF EXCEPT !.DF002 = set_DF002(1005)] ELSE DF
    /\ UNCHANGED <<produced, server_vars, printed>>

-----------------------------------------------------------------------------
(* Ephemeris records the encoders are given.                               *)

\* 2^(w-1) - 1 and -2^(w-1), the ends of a w-digit two's-complement field.
MaxSigned(w) == (Pow2(w - 2) - 1) + Pow2(w - 2)
MinSigned(w) == (-Pow2(w - 2)) * 2

\* An in-range value for a field of the kind row.conv, by profile: all
\* zero, the top of every field ("max"), the most negative value of the
\* signed fields ("min"), minus one unit in the signed fields
\* ("minus_one"), a mid-range pattern ("mixed"), or one unit in the
\* unsigned fields only ("unsigned").  A time of day d_t_k
\* is hours, minutes and a 30-second part.
SampleValue(row, profile) ==
    CASE row.conv \in {"uint", "uint_again"} ->
            CASE profile = "zero" -> 0
              [] profile = "max"  -> Pow2(row.w) - 1
              [] profile = "mixed" -> Pow2(row.w - 1)
              [] OTHER            -> 1
      [] row.conv = "bool" -> profile \in {"max", "minus_one"}
      [] row.conv = "int_lsb" ->
            CASE profile \in {"zero", "unsigned"} -> <<0, "0">>
              [] profile = "max"  -> <<MaxSigned(row.w), row.lsb>>
              [] profile = "min"  -> <<MinSigned(row.w), row.lsb>>
              [] profile = "mixed" -> <<Pow2(row.w - 2) + 1, row.lsb>>
              [] OTHER            -> <<-1, row.lsb>>
      [] row.conv = "uint_lsb" ->
            CASE profile = "zero" -> <<0, "0">>
              [] profile = "max"  -> <<Pow2(row.w) - 1, row.lsb>>
              [] profile = "mixed" -> <<Pow2(row.w - 1), row.lsb>>
              [] OTHER            -> <<1, row.lsb>>
      [] row.conv = "uint32_lsb" ->
            CASE profile = "zero" -> <<0, "0">>
              [] profile = "max"  -> <<<<65535, 65535>>, row.lsb>>
              [] profile = "mixed" -> <<<<32768, 1>>, row.lsb>>
              [] OTHER            -> <<<<0, 1>>, row.lsb>>
      [] row.conv = "sint_lsb" ->
            CASE profile \in {"zero", "unsigned"} -> <<0, "0">>
              [] profile = "max"  -> <<MaxSigned(row.w), row.lsb>>
              [] profile = "min"  -> <<-MaxSigned(row.w), row.lsb>>
              [] profile = "mixed" -> <<1, row.lsb>>
              [] OTHER            -> <<-1, row.lsb>>
      [] row.conv = "uint_minus_7" ->
            CASE profile = "zero" -> 0
              [] profile = "max"  -> 13
              [] profile = "mixed" -> 1
              [] OTHER            -> -7
      [] row.conv = "P_1" ->
            CASE profile = "zero" -> 0
              [] profile = "max"  -> 60
              [] profile = "mixed" -> 45
              [] OTHER            -> 30
      [] row.conv = "t_k" ->
            CASE profile = "zero" -> 0
              [] profile = "max"  -> 23 * 3600 + 59 * 60 + 30
              [] profile = "min"  -> 30
              [] profile = "mixed" -> 15 * 3600 + 31 * 60
              [] OTHER            -> 3600 + 60
      [] row.conv = "uint_times" ->
            CASE profile = "zero" -> 0
              [] profile = "max"  -> (Pow2(row.w) - 1) * row.times
              [] profile = "mixed" -> Pow2(row.w - 1) * row.times
              [] OTHER            -> row.times

\* The record whose fields are those the rows name, each with the value
\* of the profile.
SampleRecord(rows, profile) ==
    [f \in {rows[k].f : k \in 1..Len(rows)} |->
        SampleValue(rows[CHOOSE k \in 1..Len(rows) : rows[k].f = f], profile)]
    @@ <<>>

Profiles == {"zero", "max", "min", "minus_one", "mixed"}

-----------------------------------------------------------------------------
(* Message type 1019: calls.                                               *)

\* A Gps_Ephemeris by profile; "negative_idot" is the zero record with
\* idot one unit below zero.
GpsEphemeris(profile) ==
    IF profile = "negative_idot"
    THEN [SampleRecord(read_MT1019_fields, "zero")
             EXCEPT !.idot = <<-1, "I_DOT_LSB">>]
    ELSE SampleRecord(read_MT1019_fields, profile)

GpsProfiles == Profiles \cup {"negative_idot"}

\* The Gps_Ephemeris read_MT1019 is given to fill: default-constructed, or
\* holding an earlier ephemeris.
GpsOuts ==
    [fresh |-> GpsEphemeris("zero"), dirty |-> GpsEphemeris("minus_one")]

\* print_MT1019(gps_eph)
PrintMT1019Of(profile, fptoui) ==
    /\ CanPrint
    /\ pc' = AfterPrint
    /\ produced' = [by |-> "print_MT1019",
                    args |-> [gps_eph |-> GpsEphemeris(profile),
                              fptoui |-> fptoui],
                    frame |-> print_MT1019(GpsEphemeris(profile), fptoui)]
    /\ UNCHANGED last_lock_time
    /\ DF' = [DF EXCEPT !.DF002 = set_DF002(1019)]
    /\ call' = NoCall
    /\ Returns("print_MT1019", <<produced'.frame>>)

PrintMT1019 ==
    \E profile \in GpsProfiles, fptoui \in FpToUint32Outcomes :
        PrintMT1019Of(profile, fptoui)

ReadMT1019Call(m, message, before) ==
    Outcome("read_MT1019", m, message, before, read_MT1019(message, before))

\* read_MT1019(message, gps_eph): a const member, the object is unchanged.
ReadMT1019 ==
    /\ pc = "call"
    /\ pc' = "done"
    /\ Readable
    /\ \E c \in ReadCases(produced.frame, produced.by = "print_MT1019",
                           61, 1019, GpsOuts.fresh, GpsOuts.dirty) :
          call' = ReadMT1019Call(c[1], mangle(produced.frame, c[1]), c[2])
    /\ UNCHANGED <<last_lock_time, DF, produced, server_vars, printed>>

-----------------------------------------------------------------------------
(* Message type 1045: calls.                                               *)

\* The fields of a Galileo_Ephemeris that print_MT1045 reads, with the
\* width of the frame field each goes to and the constant its setter
\* divides by (toc is taken in whole seconds).
Galileo_Ephemeris_fields == <<
    [f |-> "PRN", w |-> 6, conv |-> "uint"],
    [f |-> "WN", w |-> 12, conv |-> "uint"],
    [f |-> "IOD_nav", w |-> 10, conv |-> "uint"],
    [f |-> "SISA", w |-> 8, conv |-> "uint"],
    [f |-> "idot", w |-> 14, conv |-> "int_lsb", lsb |-> "FNAV_IDOT_2_LSB"],
    [f |-> "toc", w |-> 14, conv |-> "uint_lsb", lsb |-> "1"],
    [f |-> "af2", w |-> 6, conv |-> "int_lsb", lsb |-> "FNAV_AF2_1_LSB"],
    [f |-> "af1", w |-> 21, conv |-> "int_lsb", lsb |-> "FNAV_AF1_1_LSB"],
    [f |-> "af0", w |-> 31, conv |-> "int_lsb", lsb |-> "FNAV_AF0_1_LSB"],
    [f |-> "Crs", w |-> 16, conv |-> "int_lsb", lsb |-> "FNAV_CRS_3_LSB"],
    [f |-> "delta_n", w |-> 16, conv |-> "int_lsb",
     lsb |-> "FNAV_DELTAN_3_LSB"],
    [f |-> "M_0", w |-> 32, conv |-> "int_lsb", lsb |-> "FNAV_M0_2_LSB"],
    [f |-> "Cuc", w |-> 16, conv |-> "int_lsb", lsb |-> "FNAV_CUC_3_LSB"],
    [f |-> "ecc", w |-> 32, conv |-> "uint32_lsb", lsb |-> "FNAV_E_2_LSB"],
    [f |-> "Cus", w |-> 16, conv |-> "int_lsb", lsb |-> "FNAV_CUS_3_LSB"],
    [f |-> "sqrtA", w |-> 32, conv |-> "uint32_lsb", lsb |-> "FNAV_A12_2_LSB"],
    [f |-> "toe", w |-> 14, conv |-> "uint_lsb", lsb |-> "FNAV_T0E_3_LSB"],
    [f |-> "Cic", w |-> 16, conv |-> "int_lsb", lsb |-> "FNAV_CIC_4_LSB"],
    [f |-> "OMEGA_0", w |-> 32, conv |-> "int_lsb",
     lsb |-> "FNAV_OMEGA0_2_LSB"],
    [f |-> "Cis", w |-> 16, conv |-> "int_lsb", lsb |-> "FNAV_CIS_4_LSB"],
    [f |-> "i_0", w |-> 32, conv |-> "int_lsb", lsb |-> "FNAV_I0_3_LSB"],
    [f |-> "Crc", w |-> 16, conv |-> "int_lsb", lsb |-> "FNAV_CRC_3_LSB"],
    [f |-> "omega", w |-> 32, conv |-> "int_lsb", lsb |-> "FNAV_OMEGA0_2_LSB"],
    [f |-> "OMEGAdot", w |-> 24, conv |-> "int_lsb",
     lsb |-> "FNAV_OMEGADOT_2_LSB"],
    [f |-> "BGD_E1E5a", w |-> 10, conv |-> "int_lsb",
     lsb |-> "FNAV_BGD_1_LSB"],
    [f |-> "E5a_HS", w |-> 2, conv |-> "uint"],
    [f |-> "E5a_DVS", w |-> 1, conv |-> "bool"] >>

\* A Galileo_Ephemeris by profile; "only_idot", "only_toc" and "only_bgd"
\* are the zero record with one unit in that field.
GalileoEphemeris(profile) ==
    LET zero == SampleRecord(Galileo_Ephemeris_fields, "zero")
    IN  CASE profile = "only_idot" ->
                [zero EXCEPT !.idot = <<1, "FNAV_IDOT_2_LSB">>]
          [] profile = "only_toc" -> [zero EXCEPT !.toc = <<1, "1">>]
          [] profile = "only_bgd" ->
                [zero EXCEPT !.BGD_E1E5a = <<1, "FNAV_BGD_1_LSB">>]
          [] OTHER -> SampleRecord(Galileo_Ephemeris_fields, profile)

GalileoProfiles == Profiles \cup {"only_idot", "only_toc", "only_bgd"}

\* The Galileo_Ephemeris read_MT1045 is given to fill.
GalileoOuts ==
    [fresh |-> GalileoEphemeris("zero"), dirty |-> GalileoEphemeris("minus_one")]

\* print_MT1045(gal_eph)
PrintMT1045Of(profile, fptoui) ==
    /\ CanPrint
    /\ pc' = AfterPrint
    /\ produced' = [by |-> "print_MT1045",
                    args |-> [gal_eph |-> GalileoEphemeris(profile),
                              fptoui |-> fptoui],
                    frame |-> print_MT1045(GalileoEphemeris(profile),
                                           DF.DF292, fptoui)]
    /\ UNCHANGED last_lock_time
    /\ DF' = [DF EXCEPT !.DF002 = set_DF002(1045)]
    /\ call' = NoCall
    /\ Returns("print_MT1045", <<produced'.frame>>)

PrintMT1045 ==
    \E profile \in GalileoProfiles, fptoui \in FpToUint32Outcomes :
        PrintMT1045Of(profile, fptoui)

ReadMT1045Call(m, message, before) ==
    Outcome("read_MT1045", m, message, before, read_MT1045(message, before))

\* read_MT1045(message, gal_eph): a const member, the object is unchanged.
ReadMT1045 ==
    /\ pc = "call"
    /\ pc' = "done"
    /\ Readable
    /\ \E c \in ReadCases(produced.frame, produced.by = "print_MT1045",
                           62, 1045, GalileoOuts.fresh, GalileoOuts.dirty) :
          call' = ReadMT1045Call(c[1], mangle(produced.frame, c[1]), c[2])
    /\ UNCHANGED <<last_lock_time, DF, produced, server_vars, printed>>

-----------------------------------------------------------------------------
(* Message type 1020: calls.                                               *)

\* The fields of a Glonass_Gnav_Ephemeris and a Glonass_Gnav_Utc_Model
\* that print_MT1020 reads, with the width of the frame field each goes
\* to and the constant its setter divides by.
Glonass_fields == <<
    [f |-> "i_satellite_slot_number", w |-> 5, conv |-> "uint"],
    [f |-> "i_satellite_freq_channel", w |-> 5, conv |-> "uint_minus_7"],
    [f |-> "d_P_1", w |-> 2, conv |-> "P_1"],
    [f |-> "d_t_k", w |-> 12, conv |-> "t_k"],
    [f |-> "d_B_n", w |-> 1, conv |-> "uint"],
    [f |-> "d_P_2", w |-> 1, conv |-> "bool"],
    [f |-> "d_t_b", w |-> 7, conv |-> "uint_times", times |-> 15 * 60],
    [f |-> "d_VXn", w |-> 24, conv |-> "sint_lsb", lsb |-> "TWO_N20"],
    [f |-> "d_Xn", w |-> 27, conv |-> "sint_lsb", lsb |-> "TWO_N11"],
    [f |-> "d_AXn", w |-> 5, conv |-> "sint_lsb", lsb |-> "TWO_N30"],
    [f |-> "d_VYn", w |-> 24, conv |-> "sint_lsb", lsb |-> "TWO_N20"],
    [f |-> "d_Yn", w |-> 27, conv |-> "sint_lsb", lsb |-> "TWO_N11"],
    [f |-> "d_AYn", w |-> 5, conv |-> "sint_lsb", lsb |-> "TWO_N30"],
    [f |-> "d_VZn", w |-> 24, conv |-> "sint_lsb", lsb |-> "TWO_N20"],
    [f |-> "d_Zn", w |-> 27, conv |-> "sint_lsb", lsb |-> "TWO_N11"],
    [f |-> "d_AZn", w |-> 5, conv |-> "sint_lsb", lsb |-> "TWO_N30"],
    [f |-> "d_P_3", w |-> 1, conv |-> "bool"],
    [f |-> "d_gamma_n", w |-> 11, conv |-> "sint_lsb", lsb |-> "TWO_N40"],
    [f |-> "d_P", w |-> 2, conv |-> "uint"],
    [f |-> "d_l3rd_n", w |-> 1, conv |-> "bool"],
    [f |-> "d_tau_n", w |-> 22, conv |-> "sint_lsb", lsb |-> "TWO_N30"],
    [f |-> "d_Delta_tau_n", w |-> 5, conv |-> "sint_lsb", lsb |-> "TWO_N30"],
    [f |-> "d_E_n", w |-> 5, conv |-> "uint"],
    [f |-> "d_P_4", w |-> 1, conv |-> "bool"],
    [f |-> "d_F_T", w |-> 4, conv |-> "uint"],
    [f |-> "d_N_T", w |-> 11, conv |-> "uint"],
    [f |-> "d_M", w |-> 2, conv |-> "uint"],
    [f |-> "d_N_A", w |-> 11, conv |-> "uint"],
    [f |-> "d_tau_c", w |-> 32, conv |-> "int_lsb", lsb |-> "TWO_N31"],
    [f |-> "d_N_4", w |-> 5, conv |-> "uint"],
    [f |-> "d_tau_gps", w |-> 22, conv |-> "sint_lsb", lsb |-> "TWO_N30"],
    [f |-> "d_l5th_n", w |-> 1, conv |-> "uint"] >>

\* The fields of the two records together, by profile; "only_VXn" and the
\* like are the zero records with one field set.
GlonassRecords(profile) ==
    LET zero == SampleRecord(Glonass_fields, "zero")
    IN  CASE profile = "only_VXn" ->
                [zero EXCEPT !.d_VXn = <<1, "TWO_N20">>]
          [] profile = "only_t_k_30s" -> [zero EXCEPT !.d_t_k = 30]
          [] profile = "only_t_k_16h" -> [zero EXCEPT !.d_t_k = 16 * 3600]
          [] profile = "only_t_k_1h" -> [zero EXCEPT !.d_t_k = 3600]
          [] profile = "only_gamma_n" ->
                [zero EXCEPT !.d_gamma_n = <<-1, "TWO_N40">>]
          [] profile = "only_tau_c" ->
                [zero EXCEPT !.d_tau_c = <<1, "TWO_N31">>]
          [] profile = "only_tau_gps" ->
                [zero EXCEPT !.d_tau_gps = <<1, "TWO_N30">>]
          [] OTHER -> SampleRecord(Glonass_fields, profile)

GlonassProfiles ==
    Profiles \cup {"only_VXn", "only_t_k_30s", "only_t_k_16h", "only_t_k_1h",
                   "only_gamma_n", "only_tau_c", "only_tau_gps", "unsigned"}

\* The fields that belong to the Glonass_Gnav_Utc_Model.
UtcModelFields == {"d_N_A", "d_tau_c", "d_N_4", "d_tau_gps"}

Glonass_Gnav_Ephemeris(records) ==
    [f \in (DOMAIN records) \ UtcModelFields |-> records[f]]
Glonass_Gnav_Utc_Model(records) ==
    [f \in UtcModelFields |-> records[f]]

\* The records read_MT1020 is given to fill.
GlonassOuts ==
    [fresh |-> GlonassRecords("zero"), dirty |-> GlonassRecords("minus_one")]

\* print_MT1020(glonass_gnav_eph, glonass_gnav_utc_model)
PrintMT1020Of(profile) ==
    /\ CanPrint
    /\ pc' = AfterPrint
    /\ produced' =
          [by |-> "print_MT1020",
           args |-> [glonass_gnav_eph |->
                        Glonass_Gnav_Ephemeris(GlonassRecords(profile)),
                     glonass_gnav_utc_model |->
                        Glonass_Gnav_Utc_Model(GlonassRecords(profile))],
           frame |-> print_MT1020(
                        Glonass_Gnav_Ephemeris(GlonassRecords(profile)),
                        Glonass_Gnav_Utc_Model(GlonassRecords(profile)))]
    /\ UNCHANGED last_lock_time
    /\ DF' = [DF EXCEPT !.DF002 = set_DF002(1020)]
    /\ call' = NoCall
    /\ Returns("print_MT1020", <<produced'.frame>>)

PrintMT1020 == \E profile \in GlonassProfiles : PrintMT1020Of(profile)

ReadMT1020Call(m, message, before) ==
    Outcome("read_MT1020", m, message, before, read_MT1020(message, before))

\* read_MT1020(message, glonass_gnav_eph, glonass_gnav_utc_model): a const
\* member, the object is unchanged.
ReadMT1020 ==
    /\ pc = "call"
    /\ pc' = "done"
    /\ Readable
    /\ \E c \in ReadCases(produced.frame, produced.by = "print_MT1020",
                           45, 1020, GlonassOuts.fresh, GlonassOuts.dirty) :
          call' = ReadMT1020Call(c[1], mangle(produced.frame, c[1]), c[2])
    /\ UNCHANGED <<last_lock_time, DF, produced, server_vars, printed>>

-----------------------------------------------------------------------------
(* The TCP server: calls in a session.                                     *)

\* The string stop_server pushes to end the reader thread, as bytes.
Goodbye == <<71, 111, 111, 100, 98, 121, 101>>

\* run_server(): tq and t are assigned new threads and the flag is set.
\* Assigning to tq while it is joinable ends the process (std::terminate).
\* A std::thread constructor that throws leaves the flag as it was: with
\* nothing started ("none") or with tq alone started ("tq").
RunServer ==
    /\ pc = "session"
    /\ IF tq_joinable
       THEN /\ pc' = "terminated"
            /\ UNCHANGED <<server_is_running, tq_joinable>>
       ELSE /\ pc' = pc
            /\ \E started \in {"both", "tq", "none"} :
                  /\ server_is_running' = (started = "both")
                  /\ tq_joinable' = (started # "none")
    /\ UNCHANGED <<last_lock_time, DF, produced, call, rtcm_message_queue, printed>>

\* The number of times stop_server has pushed its string.
Stops == Len(SelectSeq(rtcm_message_queue, LAMBDA m : m = Goodbye))

\* stop_server(): "Goodbye" is pushed, tq and t are joined and the flag is
\* cleared; join() on a thread that is not joinable throws, and then the
\* flag, false already, is left as it is.
StopServer ==
    /\ pc = "session"
    /\ Stops < MaxStops
    /\ pc' = pc
    /\ rtcm_message_queue' = Append(rtcm_message_queue, Goodbye)
    /\ tq_joinable' = FALSE
    /\ server_is_running' = FALSE
    /\ UNCHANGED <<last_lock_time, DF, produced, call, printed>>

\* A session on a new Rtcm object.
InitServer ==
    /\ pc = "session"
    /\ DF = [DF002 |-> bitset(12, 0), DF292 |-> bitset(14, 0),
             DF014 |-> bitset(8, 0), DF015 |-> bitset(8, 0),
             DF019 |-> bitset(7, 0), DF024 |-> bitset(1, 0)]
    /\ last_lock_time = <<>>
    /\ produced = [by |-> "none", args |-> <<>>, frame |-> <<>>]
    /\ call = NoCall
    /\ server_is_running = FALSE
    /\ tq_joinable = FALSE
    /\ rtcm_message_queue = <<>>
    /\ printed = <<>>

NextServer ==
    \/ RunServer
    \/ StopServer
    \/ PrintMT1005Test
    \/ PrintMT1019Of("zero", "wrap")
    \/ PrintMT1045Of("minus_one", "wrap")

SpecServer == InitServer /\ [][NextServer]_vars

-----------------------------------------------------------------------------
(* Observation messages: calls.                                            *)

Gnss_Synchro(System, Signal, PRN, CN0_dB_hz) ==
    [System |-> System, Signal |-> Signal, PRN |-> PRN,
     Pseudorange_m |-> 0, Carrier_phase_rads |-> 0,
     CN0_dB_hz |-> CN0_dB_hz]

\* The observable with a pseudorange of r units.
Ranged(gnss_synchro, r) == [gnss_synchro EXCEPT !.Pseudorange_m = r]

\* More satellites than the 5-digit count of messages 1001-1004 and
\* 1009-1012 can hold.
ManySatellites == 32

\* Observable snapshots, by name.
Snapshots ==
    [empty   |-> <<>>,
     galileo |-> <<Gnss_Synchro("E", "1B", 11, 45)>>,
     gps     |-> <<Gnss_Synchro("G", "1C", 5, 40)>>,
     gps_far |-> <<Gnss_Synchro("G", "1C", 200, 40)>>,
     gps_two |-> <<Gnss_Synchro("G", "1C", 5, 40),
                   Gnss_Synchro("G", "1C", 7, 38)>>,
     gps_L2  |-> <<Gnss_Synchro("G", "1C", 5, 40),
                   Gnss_Synchro("G", "2S", 5, 36)>>,
     gps_L2_twice |-> <<Gnss_Synchro("G", "1C", 5, 40),
                        Gnss_Synchro("G", "2S", 5, 36),
                        Gnss_Synchro("G", "2S", 5, 37)>>,
     gps_many |-> [i \in 1..ManySatellites |->
                      Gnss_Synchro("G", "1C", i, 40)],
     glonass_many |-> [i \in 1..ManySatellites |->
                          Gnss_Synchro("R", "1C", i, 40)],
     msm_descending |-> <<Ranged(Gnss_Synchro("G", "1C", 7, 38), 3),
                          Ranged(Gnss_Synchro("G", "1C", 5, 40), 9),
                          Ranged(Gnss_Synchro("G", "2S", 5, 36), 12)>>,
     msm_cells |-> <<Gnss_Synchro("G", "2S", 7, 30),
                     Gnss_Synchro("G", "1C", 5, 40),
                     Gnss_Synchro("G", "2S", 5, 36),
                     Gnss_Synchro("G", "1C", 7, 38)>>,
     msm_sparse |-> <<Gnss_Synchro("G", "1C", 7, 38),
                      Gnss_Synchro("G", "2S", 5, 36),
                      Gnss_Synchro("G", "5X", 7, 33)>>,
     msm_galileo |-> <<Gnss_Synchro("E", "7X", 12, 41),
                       Gnss_Synchro("E", "1B", 11, 45),
                       Gnss_Synchro("E", "5X", 11, 43)>>,
     msm_duplicate |-> <<Gnss_Synchro("G", "1C", 5, 40),
                         Gnss_Synchro("G", "1C", 5, 41)>>,
     msm_unknown_alone |-> <<Gnss_Synchro("G", "9Z", 5, 40)>>,
     msm_unknown |-> <<Gnss_Synchro("G", "1C", 5, 40),
                       Gnss_Synchro("G", "9Z", 7, 38)>>,
     msm_unmasked |-> <<Gnss_Synchro("G", "1C", 5, 40),
                        Gnss_Synchro("G", "1W", 7, 38)>>,
     msm_glonass |-> <<Gnss_Synchro("R", "1C", 3, 40),
                       Gnss_Synchro("R", "2C", 3, 36)>>,
     msm_mixed |-> <<Gnss_Synchro("G", "1C", 5, 40),
                     Gnss_Synchro("R", "2C", 3, 36)>>,
     msm_prn_0 |-> <<Gnss_Synchro("G", "1C", 0, 40)>>]

\* The snapshots of Galileo and of GLONASS observables.
GalileoSnapshots == {"galileo", "msm_galileo"}
GlonassSnapshots == {"glonass_many", "msm_glonass"}

\* The arguments of one call: n is the message number of print_MTn, or k
\* for print_MSM_k; the ephemerides are given by their week number and
\* PRN (0 in an ephemeris that is not set).  ties is not an argument: it
\* says how the build's std::sort orders equal elements.
ObsCall(n, snapshot, obs_time, station_id) ==
    [by |-> IF n < 10 THEN "print_MSM" ELSE "print_MT_observables",
     n |-> n, snapshot |-> snapshot, observables |-> Snapshots[snapshot],
     obs_time |-> obs_time, station_id |-> station_id,
     gps_eph |-> [type |-> "Gps_Ephemeris", WN |-> 290,
                  PRN |-> IF snapshot \in GalileoSnapshots
                                          \cup GlonassSnapshots
                          THEN 0 ELSE 5],
     gps_cnav_eph |-> [type |-> "Gps_CNAV_Ephemeris", WN |-> 2338,
                       PRN |-> 0],
     gal_eph |-> [type |-> "Galileo_Ephemeris", WN |-> 1314,
                  PRN |-> IF snapshot \in GalileoSnapshots THEN 11 ELSE 0],
     glo_gnav_eph |-> [type |-> "Glonass_Gnav_Ephemeris",
                       PRN |-> IF snapshot \in GlonassSnapshots
                               THEN 3 ELSE 0],
     clock_steering_indicator |-> 0, external_clock_indicator |-> 0,
     smooth_int |-> 0, divergence_free |-> FALSE, more_messages |-> FALSE,
     ties |-> "kept"]

\* print_MSM_1 and print_MSM_4 on snapshots of observables, under either
\* order of equal elements where the snapshot has more than one observable
\* to order; the GLONASS snapshots and those with a pseudorange are given
\* to print_MSM_1 alone.
MSMCalls ==
    {c \in {[ObsCall(k, s, 1000, 1234) EXCEPT !.ties = t] :
               k \in {1, 4},
               s \in {"gps_L2", "msm_cells", "msm_sparse", "msm_galileo",
                      "msm_duplicate", "msm_unknown_alone", "msm_unknown",
                      "msm_unmasked", "msm_prn_0"},
               t \in {"kept", "swapped"}}
              \cup {[ObsCall(1, s, 1000, 1234) EXCEPT !.ties = t] :
                       s \in {"msm_descending", "msm_glonass", "msm_mixed"},
                       t \in {"kept", "swapped"}} :
        Len(c.observables) > 1 \/ c.ties = "kept"}

\* The calls a caller that asks for one frame may make: every function on
\* an empty snapshot and on one with no observable of its constellation,
\* messages 1003 and 1004 on L1 observables alone, and message 1001 on
\* observables of its own, with a station id of at most and of more than
\* 4095.
SingleCalls ==
    {ObsCall(n, s, 1000, 1234) :
        n \in {1001, 1002, 1003, 1004, 1009, 1010, 1011, 1012},
        s \in {"empty", "galileo"}}
    \cup {ObsCall(k, "empty", 1000, 1234) : k \in 1..7}
    \cup {ObsCall(n, "gps", 1000, 1234) : n \in {1003, 1004}}
    \cup {ObsCall(1001, s, 1000, id) :
             s \in {"gps", "gps_two", "gps_far"}, id \in {1234, 5000}}

\* The calls on snapshots of several observables, all of them with a PRN
\* inside the lock-time arrays: messages 1003 and 1004 on a satellite with
\* two L2 observables, messages 1001 and 1002 on more satellites than the
\* header's count holds, and the MSM calls.
SeveralCalls ==
    {ObsCall(n, "gps_L2_twice", 1000, 1234) : n \in {1003, 1004}}
    \cup {ObsCall(n, "gps_many", 1000, 1234) : n \in {1001, 1002}}
    \cup MSMCalls

\* Seconds of lock at the ends of the buckets of Table 3.5-74.
BucketEnds == {31, 32, 63, 64, 524287, 524288}

\* The calls made in a session, one after the other.
SessionCalls ==
    {ObsCall(1001, "gps", t, 1234) : t \in {0, 1500, 40000}}
    \cup {ObsCall(1001, "gps_two", 1000, 1234)}
    \cup {ObsCall(1002, "gps", t, 1234) : t \in {0, 40000}}
    \cup {ObsCall(1004, "gps_L2", 1000, 1234)}
    \cup {ObsCall(4, "gps", 1000 * s, 1234) : s \in {0} \cup BucketEnds}
    \cup {ObsCall(4, "galileo", t, 1234) : t \in {0, 90000}}

\* What the call gives: frame, fields, arrays, lock_time calls, events.
print_observables(a, DF_, tables, ub) ==
    IF a.n < 10 THEN print_MSM(a.n, a, DF_, tables, ub)
    ELSE print_MT_observables(a.n, a, DF_, tables, ub)

\* The end of a print call for observables: a frame built is pushed onto
\* the queue if the server is running, and returned; an exception or a
\* fault ends the caller's run with no frame.
PrintObservablesDone(a, ub, r) ==
    /\ produced' = [by |-> a.by, args |-> a, ub |-> ub, frame |-> r.frame,
                    parts |-> r.parts, locks |-> r.locks,
                    events |-> r.events]
    /\ DF' = r.DF
    /\ last_lock_time' = r.tables
    /\ call' = NoCall
    /\ IF r.frame = <<>>
       THEN pc' = "terminated" /\ UNCHANGED <<server_vars, printed>>
       ELSE /\ pc' = AfterPrint
            /\ rtcm_message_queue' = IF server_is_running
                                     THEN Append(rtcm_message_queue, r.frame)
                                     ELSE rtcm_message_queue
            /\ printed' = Append(printed,
                              [by |-> a.by, frames |-> <<r.frame>>,
                               running |-> server_is_running,
                               args |-> a, locks |-> r.locks])
            /\ UNCHANGED <<server_is_running, tq_joinable>>

\* The outcomes of reads outside an array or a map a call can meet: those
\* of UBReads for a print_MSM call on an empty map (get_MSM_header reads
\* observables.begin()->second) and for a call with a PRN outside the
\* lock-time arrays, "unset" alone for a call that makes no such read.
UBReadsOf(a) ==
    IF \/ a.by = "print_MSM" /\ a.observables = <<>>
       \/ \E i \in 1..Len(a.observables) : a.observables[i].PRN \notin 0..65
    THEN UBReads ELSE {"unset"}

\* print_MT1001 .. print_MT1004, print_MT1009 .. print_MT1012 and
\* print_MSM_1 .. print_MSM_7, called once.
PrintObservables ==
    /\ pc = "encode"
    /\ \E a \in SingleCalls :
          \E ub \in UBReadsOf(a) :
             PrintObservablesDone(a, ub,
                 print_observables(a, DF, last_lock_time, ub))

\* The same functions called in a session.
PrintObservablesAgain ==
    /\ pc = "session"
    /\ Len(printed) < MaxPrints
    /\ \E a \in SessionCalls :
          PrintObservablesDone(a, "unset",
              print_observables(a, DF, last_lock_time, "unset"))

NextObservables == PrintObservablesAgain

SpecObservables == InitServer /\ [][NextObservables]_vars

\* The most calls made on one object on snapshots of several observables.
MaxSeveral == 2

\* The same functions called on snapshots of several observables.  The
\* order std::sort gives equal elements is the build's: the print_MSM
\* calls on one object that have elements to order have the same one.
PrintSeveral ==
    /\ pc = "session"
    /\ Len(printed) < MaxSeveral
    /\ \E a \in SeveralCalls :
          /\ \A n \in 1..Len(printed) :
                (/\ a.by = "print_MSM" /\ Len(a.observables) > 1
                 /\ printed[n].by = "print_MSM"
                 /\ Len(printed[n].args.observables) > 1)
                => printed[n].args.ties = a.ties
          /\ PrintObservablesDone(a, "unset",
              print_observables(a, DF, last_lock_time, "unset"))

NextSeveral == PrintSeveral

SpecSeveral == InitServer /\ [][NextSeveral]_vars

-----------------------------------------------------------------------------
(* SSR messages from Galileo HAS data (IGM01, IGM02, IGM03, IGM05).        *)

\* Rtcm::ssr_update_interval
ssr_update_interval(validity_seconds) ==
    LET limits == <<2, 5, 10, 15, 30, 60, 120, 240, 300, 600, 900, 1800,
                    3600, 7200, 10800>>
    IN  Cardinality({k \in 1..Len(limits) : limits[k] <= validity_seconds})

\* The signal names get_IGM05_content_sat gives a tracking mode to, by the
\* segment's gnss_id_mask (0: GPS, 2: Galileo).
IGM05_modes(gnss_id) ==
    CASE gnss_id = 0 ->
           [n \in {"L1 C/A", "L1C(D)", "L1C(P)", "L2 CM", "L2 CL", "L5 I",
                   "L5 Q"} |->
               CASE n = "L1 C/A" -> 0 [] n = "L1C(D)" -> 3
                 [] n = "L1C(P)" -> 4 [] n = "L2 CM" -> 7
                 [] n = "L2 CL" -> 8 [] n = "L5 I" -> 14 [] n = "L5 Q" -> 15]
      [] gnss_id = 2 ->
           [n \in {"E1-B I/NAV OS", "E1-C", "E5a-I F/NAV OS", "E5a-Q",
                   "E5b-I I/NAV OS", "E5b-Q", "E6-B C/NAV HAS", "E6-C"} |->
               CASE n = "E1-B I/NAV OS" -> 1 [] n = "E1-C" -> 2
                 [] n = "E5a-I F/NAV OS" -> 5 [] n = "E5a-Q" -> 6
                 [] n = "E5b-I I/NAV OS" -> 8 [] n = "E5b-Q" -> 9
                 [] n = "E6-B C/NAV HAS" -> 15 [] n = "E6-C" -> 16]
      [] OTHER -> <<>>

\* Rtcm::get_IGM01_header, get_IGM02_header, get_IGM03_header and
\* get_IGM05_header (kind = 1, 2, 3, 5) for segment nsys (from 0).  The
\* regional indicator IDF006 is part of the headers of IGM01 and IGM03 only.
get_IGM_header(kind, has_data, nsys, ssr_multiple_msg_indicator) ==
    LET gnss_id == has_data.gnss_id_mask[nsys + 1]
        subtype_msg_number == IF gnss_id = 0 THEN 20 + kind
                              ELSE IF gnss_id = 2 THEN 60 + kind ELSE 0
        Nsat == has_data.num_satellites[nsys + 1]
    IN  bitset(12, 4076) \o bitset(3, 0) \o bitset(8, subtype_msg_number)
        \o bitset(20, IF has_data.tow > 604799 THEN 0 ELSE has_data.tow)
        \o bitset(4, ssr_update_interval(has_data.validity_seconds))
        \o bitset(1, IF ssr_multiple_msg_indicator THEN 1 ELSE 0)
        \o bitset(4, has_data.iod_set_id % 15)
        \o bitset(16, 0) \o bitset(4, 0)
        \o (IF kind \in {1, 3} THEN bitset(1, 0) ELSE <<>>)
        \o bitset(6, IF Nsat > 63 THEN 0 ELSE Nsat)

\* Rtcm::get_IGM01_content_sat, get_IGM02_content_sat, get_IGM03_content_sat
\* and get_IGM05_content_sat for segment nsys_index (from 0), for HAS data
\* whose corrections, biases and issues of data are all zero.  DF_ holds
\* the object's fields before the call: IGM03 places DF019 and IGM05 places
\* DF024 in the block, which no IGM function sets.
get_IGM_content_sat(kind, has_data, nsys_index, DF_) ==
    LET n     == has_data.num_satellites[nsys_index + 1]
        prn   == has_data.PRNs_in_mask[nsys_index + 1]
        names == has_data.signals_in_mask[nsys_index + 1]
        modes == IGM05_modes(has_data.gnss_id_mask[nsys_index + 1])
        valid == SelectSeq(names, LAMBDA c : c \in DOMAIN modes)
        IDF011(sat) == bitset(6, IF prn[sat] > 63 THEN 0 ELSE prn[sat])
        orbit == bitset(8, 0) \o bitset(22, 0) \o bitset(20, 0)
        block(sat) ==
            CASE kind = 1 -> IDF011(sat) \o orbit \o bitset(21, 0)
                             \o bitset(20, 0) \o bitset(19, 0)
                             \o bitset(19, 0)
              [] kind = 2 -> IDF011(sat) \o bitset(22, 0) \o bitset(21, 0)
                             \o bitset(27, 0)
              [] kind = 3 -> IDF011(sat) \o orbit \o bitset(20, 0)
                             \o bitset(21, 0) \o bitset(19, 0)
                             \o bitset(19, 0) \o DF_.DF019 \o bitset(21, 0)
                             \o bitset(27, 0)
              [] kind = 5 ->
                   IF valid = <<>> THEN <<>>
                   ELSE IDF011(sat) \o bitset(5, Len(valid))
                        \o tuple_of([i \in 1..(15 * Len(valid)) |->
                               IF i % 15 = 1 THEN DF_.DF024[1] ELSE 0])
        blocks == [sat \in 1..n |-> block(sat)]
    IN  IF n = 0 THEN <<>>
        ELSE tuple_of([i \in 1..(n * Len(block(1))) |->
                 blocks[((i - 1) \div Len(block(1))) + 1]
                       [((i - 1) % Len(block(1))) + 1]])

\* Rtcm::print_IGM01, print_IGM02, print_IGM03 and print_IGM05, up to the
\* messages built.  print_IGM05 builds no message for a segment whose
\* content is empty.
print_IGM(kind, has_data, DF_) ==
    LET nsys     == has_data.Nsys
        sat_data == [sys \in 1..nsys |->
                        get_IGM_content_sat(kind, has_data, sys - 1, DF_)]
        header   == [sys \in 1..nsys |->
                        get_IGM_header(kind, has_data, sys - 1,
                                       sys - 1 # nsys - 1)]
        built    == SelectSeq([sys \in 1..nsys |-> sys],
                        LAMBDA sys : kind # 5 \/ sat_data[sys] # <<>>)
    IN  [msgs |-> [i \in 1..Len(built) |->
                      build_message(header[built[i]]
                                    \o sat_data[built[i]])],
         DF   |-> IF nsys = 0 THEN DF_
                  ELSE [DF_ EXCEPT !.DF002 = set_DF002(4076)]]

\* One constellation segment of a Galileo_HAS_data: its gnss_id_mask entry,
\* its satellites and the names of its signals.
Segments ==
    [gps     |-> [gnss_id |-> 0, PRNs |-> <<3, 17>>,
                  signals |-> <<"L1 C/A", "L2 CL">>],
     galileo |-> [gnss_id |-> 2, PRNs |-> <<11>>,
                  signals |-> <<"E1-B I/NAV OS", "E5a-Q", "E7">>],
     bare    |-> [gnss_id |-> 2, PRNs |-> <<4>>, signals |-> <<>>],
     other   |-> [gnss_id |-> 0, PRNs |-> <<9>>, signals |-> <<"L3">>]]

\* A Galileo_HAS_data of the given segments, with what its getters return.
Galileo_HAS_data(segs) ==
    [Nsys |-> Len(segs),
     gnss_id_mask    |-> [i \in 1..Len(segs) |-> Segments[segs[i]].gnss_id],
     num_satellites  |-> [i \in 1..Len(segs) |->
                             Len(Segments[segs[i]].PRNs)],
     PRNs_in_mask    |-> [i \in 1..Len(segs) |-> Segments[segs[i]].PRNs],
     signals_in_mask |-> [i \in 1..Len(segs) |-> Segments[segs[i]].signals],
     tow |-> 345600, iod_set_id |-> 17, validity_seconds |-> 60,
     segments |-> segs]

IGMCalls ==
    {[kind |-> k, has_data |-> Galileo_HAS_data(segs)] :
        k \in {1, 2, 3, 5},
        segs \in {<<>>, <<"gps">>, <<"gps", "galileo">>,
                  <<"galileo", "gps">>, <<"gps", "bare">>,
                  <<"other", "galileo">>, <<"bare">>,
                  <<"gps", "other", "galileo">>}}

\* print_IGM01(has_data), print_IGM02, print_IGM03, print_IGM05: each
\* message built is pushed onto the queue if the server is running, and the
\* messages are returned.
PrintIGMOf(a, r) ==
    /\ pc = "encode"
    /\ pc' = IF r.msgs = <<>> THEN "done" ELSE "call"
    /\ produced' = [by |-> "print_IGM", args |-> a,
                    frame |-> IF r.msgs = <<>> THEN <<>> ELSE r.msgs[1],
                    msgs |-> r.msgs]
    /\ UNCHANGED last_lock_time
    /\ DF' = r.DF
    /\ call' = NoCall
    /\ Returns("print_IGM", r.msgs)

PrintIGM == \E a \in IGMCalls : PrintIGMOf(a, print_IGM(a.kind, a.has_data, DF))

-----------------------------------------------------------------------------
(* SSR correction fields (IDF013 .. IDF021, IDF025).                       *)

\* In this part the float a setter is given is a whole number of metres
\* (or m/s, m/s^2), so that its product with the setter's scale is a whole
\* number that the float holds exactly.

\* What static_cast<int32_t> or static_cast<int16_t> of a float outside the
\* type's range gives (undefined behaviour): the result of the conversion
\* instruction to 32 bits, which for a value outside int32_t is the
\* integer indefinite value -2^31, cut to the width of the type
\* ("truncated"), or the nearest value of the type ("saturated").
FpToIntOutcomes == {"truncated", "saturated"}

\* static_cast<int32_t>(value * scale)
float_to_int32(value, scale, fptosi) ==
    IF value <= 2147483647 \div scale /\ -value <= 2147483647 \div scale
    THEN value * scale
    ELSE IF fptosi = "saturated" /\ value > 0 THEN 2147483647
    ELSE -2147483647 - 1

\* static_cast<int16_t>(value * scale)
float_to_int16(value, scale, fptosi) ==
    LET wide == float_to_int32(value, scale, "truncated")
        low  == wide % 65536
    IN  IF wide >= -32768 /\ wide <= 32767 THEN wide
        ELSE IF fptosi = "saturated"
        THEN (IF value > 0 THEN 32767 ELSE -32768)
        ELSE IF low >= 32768 THEN low - 65536 ELSE low

\* The two tests of a setter against max_value and -max_value, and the
\* std::bitset<N> made of the result.
clamped_bitset(N, converted, max_value) ==
    bitset(N, IF converted > max_value THEN max_value
              ELSE IF converted < -max_value THEN -max_value
              ELSE converted)

\* Rtcm::set_IDF013 .. Rtcm::set_IDF021 and Rtcm::set_IDF025: the field
\* each leaves.
set_IDF013(delta_orbit_radial_m, fptosi) ==
    clamped_bitset(22, float_to_int32(delta_orbit_radial_m, 10000, fptosi),
                   2097151)
set_IDF014(delta_orbit_in_track_m, fptosi) ==
    clamped_bitset(20, float_to_int32(delta_orbit_in_track_m, 2500, fptosi),
                   524287)
set_IDF015(delta_orbit_cross_track_m, fptosi) ==
    clamped_bitset(20, float_to_int32(delta_orbit_cross_track_m, 2500,
                                      fptosi), 524287)
set_IDF016(dot_orbit_delta_track_m_s, fptosi) ==
    clamped_bitset(21, float_to_int32(dot_orbit_delta_track_m_s, 1000000,
                                      fptosi), 1048575)
set_IDF017(dot_orbit_delta_in_track_m_s, fptosi) ==
    clamped_bitset(19, float_to_int32(dot_orbit_delta_in_track_m_s, 250000,
                                      fptosi), 262143)
set_IDF018(dot_orbit_delta_cross_track_m_s, fptosi) ==
    clamped_bitset(19, float_to_int32(dot_orbit_delta_cross_track_m_s,
                                      250000, fptosi), 262143)
set_IDF019(delta_clock_c0_m, fptosi) ==
    clamped_bitset(22, float_to_int32(delta_clock_c0_m, 10000, fptosi),
                   2097151)
set_IDF020(delta_clock_c1_m_s, fptosi) ==
    clamped_bitset(21, float_to_int32(delta_clock_c1_m_s, 1000000, fptosi),
                   1048575)
set_IDF021(delta_clock_c2_m_s2, fptosi) ==
    clamped_bitset(27, float_to_int32(delta_clock_c2_m_s2, 500000000,
                                      fptosi), 67108863)
set_IDF025(code_bias_m, fptosi) ==
    clamped_bitset(14, float_to_int16(code_bias_m, 100, fptosi), 8191)

\* The setter of the given field, with its scale.
IDF_setters == {"IDF013", "IDF014", "IDF015", "IDF016", "IDF017", "IDF018",
                "IDF019", "IDF020", "IDF021", "IDF025"}

set_IDF(field, value, fptosi) ==
    CASE field = "IDF013" -> set_IDF013(value, fptosi)
      [] field = "IDF014" -> set_IDF014(value, fptosi)
      [] field = "IDF015" -> set_IDF015(value, fptosi)
      [] field = "IDF016" -> set_IDF016(value, fptosi)
      [] field = "IDF017" -> set_IDF017(value, fptosi)
      [] field = "IDF018" -> set_IDF018(value, fptosi)
      [] field = "IDF019" -> set_IDF019(value, fptosi)
      [] field = "IDF020" -> set_IDF020(value, fptosi)
      [] field = "IDF021" -> set_IDF021(value, fptosi)
      [] field = "IDF025" -> set_IDF025(value, fptosi)

IDF_scale(field) ==
    CASE field \in {"IDF013", "IDF019"} -> 10000
      [] field \in {"IDF014", "IDF015"} -> 2500
      [] field \in {"IDF016", "IDF020"} -> 1000000
      [] field \in {"IDF017", "IDF018"} -> 250000
      [] field = "IDF021" -> 500000000
      [] field = "IDF025" -> 100

\* Corrections in whole metres: none, small ones, ones whose product with
\* a scale lies around a field's bound, around the ends of int16_t and
\* beyond int32_t.
IDF_values ==
    {0, 1, -1, 3, -3, 52, 53, -53, 81, 82, -82, 209, 210, -210, 327, 328,
     -328, 400, -400, 655, 656, 3000, -3000, 300000, -300000}

\* set_IDFxxx(value), as the IGM content functions call it for a
\* correction of a satellite.
SetIDF ==
    /\ pc = "encode"
    /\ pc' = "done"
    /\ \E field \in IDF_setters, value \in IDF_values,
          fptosi \in FpToIntOutcomes :
          produced' = [by |-> "set_IDF",
                       args |-> [field |-> field, value |-> value,
                                 fptosi |-> fptosi],
                       frame |-> <<>>,
                       IDF |-> set_IDF(field, value, fptosi)]
    /\ call' = NoCall
    /\ UNCHANGED <<last_lock_time, DF, server_vars, printed>>

-----------------------------------------------------------------------------
Next ==
    \/ BuildMessage
    \/ CheckCRC
    \/ PrintMT1005
    \/ PrintMT1005Test
    \/ ReadMT1005
    \/ PrintMT1019
    \/ ReadMT1019
    \/ PrintMT1045
    \/ ReadMT1045
    \/ PrintMT1020
    \/ ReadMT1020
    \/ PrintObservables
    \/ PrintIGM
    \/ SetIDF

Spec == Init /\ [][Next]_vars

-----------------------------------------------------------------------------
(* Encode calls on separate Rtcm objects at the same time.                 *)

\* In this part every Rtcm object of Instances is used by a thread of its
\* own, one call at a time.  pc and call hold, for every instance, the
\* position in its set_DF013 call and the call's local variables;
\* printed holds the calls that have returned, in the order of their
\* return; last_lock_time holds the arrays all of them work on.

Instances == {1, 2}

\* The most set_DF013 calls made on one instance.
MaxEncodes == 2

\* The observation times the calls are given, in ms, their ephemeris and
\* their observable: every call is for the same satellite and signal.
ConcurrentObsTimes == {1000, 3000}
ConcurrentEph == [type |-> "Gps_Ephemeris", WN |-> 290, PRN |-> 5]
ConcurrentSynchro ==
    [System |-> "G", Signal |-> "1C", PRN |-> 5, Pseudorange_m |-> 0,
     Carrier_phase_rads |-> 0, CN0_dB_hz |-> 40]

\* The slot of gps_L1_last_lock_time a call on the given instance reads
\* and writes.  The arrays are declared in rtcm.h; as the specification
\* has it they are process-wide, one set for every instance.
gps_L1_last_lock_time_slot(instance, gnss_synchro) ==
    <<"gps_L1", 65 - gnss_synchro.PRN>>

\* The local variables of an instance on which no call is under way, after
\* the given number of calls.
Idle(number) ==
    [obs_time |-> 0, current_time |-> <<>>, last_lock_time |-> <<>>,
     number |-> number]

InitConcurrent ==
    /\ pc = [i \in Instances |-> "idle"]
    /\ call = [i \in Instances |-> Idle(0)]
    /\ printed = <<>>
    /\ last_lock_time = <<>>
    /\ DF = [DF002 |-> bitset(12, 0), DF292 |-> bitset(14, 0),
             DF014 |-> bitset(8, 0), DF015 |-> bitset(8, 0),
             DF019 |-> bitset(7, 0), DF024 |-> bitset(1, 0)]
    /\ produced = [by |-> "none", args |-> <<>>, frame |-> <<>>]
    /\ server_is_running = FALSE
    /\ tq_joinable = FALSE
    /\ rtcm_message_queue = <<>>

\* set_DF013(eph, obs_time, gnss_synchro) is called on the instance and
\* calls lock_time, which computes current_time.
LockTimeCalled(i) ==
    /\ pc[i] = "idle"
    /\ call[i].number < MaxEncodes
    /\ \E obs_time \in ConcurrentObsTimes :
          call' = [call EXCEPT ![i] =
                      [obs_time |-> obs_time,
                       current_time |-> compute_time(ConcurrentEph, obs_time),
                       last_lock_time |-> <<>>,
                       number |-> @.number + 1]]
    /\ pc' = [pc EXCEPT ![i] = "read"]
    /\ UNCHANGED <<last_lock_time, DF, produced, server_vars, printed>>

\* ptime last_lock_time = gps_L1_last_lock_time[65 - PRN];
LockTimeRead(i) ==
    /\ pc[i] = "read"
    /\ LET slot == gps_L1_last_lock_time_slot(i, ConcurrentSynchro)
       IN  call' = [call EXCEPT ![i].last_lock_time =
                       IF slot \in DOMAIN last_lock_time
                       THEN <<last_lock_time[slot]>> ELSE <<>>]
    /\ pc' = [pc EXCEPT ![i] = "test"]
    /\ UNCHANGED <<last_lock_time, DF, produced, server_vars, printed>>

\* if (last_lock_time.is_not_a_date_time())
\*     gps_L1_last_lock_time[65 - PRN] = current_time;
LockTimeStored(i) ==
    /\ pc[i] = "test"
    /\ LET slot == gps_L1_last_lock_time_slot(i, ConcurrentSynchro)
       IN  last_lock_time' =
              IF call[i].last_lock_time = <<>>
              THEN [k \in DOMAIN last_lock_time \cup {slot} |->
                       IF k = slot THEN call[i].current_time
                       ELSE last_lock_time[k]]
              ELSE last_lock_time
    /\ pc' = [pc EXCEPT ![i] = "subtract"]
    /\ UNCHANGED <<call, DF, produced, server_vars, printed>>

\* lock_duration = current_time - gps_L1_last_lock_time[65 - PRN]; its
\* seconds are returned, and set_DF013 returns.
LockTimeReturned(i) ==
    /\ pc[i] = "subtract"
    /\ LET slot == gps_L1_last_lock_time_slot(i, ConcurrentSynchro)
       IN  printed' = Append(printed,
                         [instance |-> i, number |-> call[i].number,
                          obs_time |-> call[i].obs_time,
                          s |-> total_seconds(call[i].current_time,
                                              last_lock_time[slot])])
    /\ pc' = [pc EXCEPT ![i] = "idle"]
    /\ call' = [call EXCEPT ![i] = Idle(@.number)]
    /\ UNCHANGED <<last_lock_time, DF, produced, server_vars>>

NextConcurrent ==
    \E i \in Instances :
        \/ LockTimeCalled(i)
        \/ LockTimeRead(i)
        \/ LockTimeStored(i)
        \/ LockTimeReturned(i)

SpecConcurrent == InitConcurrent /\ [][NextConcurrent]_vars

-----------------------------------------------------------------------------
(* Properties.                                                             *)

\* ceil(L / 8)
CeilBytes(L) == IF L % 8 = 0 THEN L \div 8 ELSE (L \div 8) + 1

\* The 10 digits after the 8-digit preamble and the 6 reserved digits.
LengthField(frame) == (frame[2] % 4) * 256 + frame[3]

ReadNames == {"read_MT1005", "read_MT1019", "read_MT1020", "read_MT1045"}

\* The declared length and the message number each decoder expects.
ExpectedLength(name) ==
    CASE name = "read_MT1005" -> 19 [] name = "read_MT1019" -> 61
      [] name = "read_MT1020" -> 45 [] name = "read_MT1045" -> 62
ExpectedNumber(name) ==
    CASE name = "read_MT1005" -> 1005 [] name = "read_MT1019" -> 1019
      [] name = "read_MT1020" -> 1020 [] name = "read_MT1045" -> 1045

\* C1: for a payload of L digits, 1 <= L <= 8184, build_message returns
\* 3 + ceil(L/8) + 3 bytes and the frame's 10-bit length field holds
\* ceil(L/8).
C1_FrameLength ==
    (produced.by = "build_message" /\ produced.args.L >= 1
     /\ produced.args.L <= 8184)
    => /\ Len(produced.frame) = 3 + CeilBytes(produced.args.L) + 3
       /\ LengthField(produced.frame) = CeilBytes(produced.args.L)

C1_Witness ==
    /\ produced.by = "build_message"
    /\ produced.args.L = 8183
    /\ Len(produced.frame) = 1029
    /\ LengthField(produced.frame) = 1023

\* C2: check_CRC accepts every frame build_message returns, and rejects
\* it once any single digit before its last 24 digits is complemented.
C2_ChecksumSensitivity ==
    call.name = "check_CRC"
    => /\ call.fault = "intact" => call.result = "true"
       /\ (call.fault = "flip" /\ call.at <= 8 * Len(produced.frame) - 24)
          => call.result = "false"

C2_Witness ==
    /\ call.name = "check_CRC"
    /\ produced.by = "build_message"
    /\ produced.args.L = 8184
    /\ call.fault = "flip"
    /\ call.at = 8 * Len(produced.frame) - 24
    /\ call.result = "false"

\* The frame D3 00 13 3E D7 D3 02 02 98 0E DE EF 34 B4 BD 62 AC 09 41 98
\* 6F 33 36 0B 98.
MT1005Literal ==
    <<211, 0, 19, 62, 215, 211, 2, 2, 152, 14, 222, 239, 52, 180, 189, 98,
      172, 9, 65, 152, 111, 51, 54, 11, 152>>

\* C3: MT1005 encoded for the test station, by print_MT1005_test or by
\* print_MT1005 with the same arguments, is exactly the 25 literal bytes.
C3_LiteralVector ==
    (\/ produced.by = "print_MT1005_test"
     \/ (produced.by = "print_MT1005" /\ produced.args = MT1005TestArgs))
    => produced.frame = MT1005Literal

C3_Witness ==
    /\ produced.by = "print_MT1005"
    /\ produced.args = MT1005TestArgs
    /\ Len(produced.frame) = 25
    /\ produced.frame[25] = 152

\* What a decoder is entitled to reject in the message of the last call:
\* a CRC that does not verify, a declared length or a message number other
\* than its own.
CrcVerifies(message) == ~check_CRC_throws(message) /\ check_CRC(message)
DeclaredLength(message) ==
    bin_to_uint(substr(binary_data_to_bin(message), 14, 10))
MessageNumber(message) ==
    bin_to_uint(substr(binary_data_to_bin(message), 24, 12))

\* C4: a decoder returns non-zero when the CRC does not verify, or the
\* declared length is not its own, or the message number is not its own,
\* and zero in every other case; the CRC is tested first, then the length,
\* then the number.
C4_ReadStatus ==
    call.name \in ReadNames
    => IF ~CrcVerifies(call.message)
       THEN call.result = "1" /\ call.check = "crc"
       ELSE IF DeclaredLength(call.message) # ExpectedLength(call.name)
       THEN call.result = "1" /\ call.check = "length"
       ELSE IF MessageNumber(call.message) # ExpectedNumber(call.name)
       THEN call.result = "1" /\ call.check = "number"
       ELSE call.result = "0"

\* C5: when a decoder returns non-zero, every output parameter has the
\* value it had before the call.
C5_OutputsUntouched ==
    (call.name \in ReadNames /\ call.result = "1")
    => call.after = call.before

C5_Witness ==
    /\ call.name = "read_MT1005"
    /\ call.result = "1"
    /\ call.check = "number"
    /\ call.before.ref_id = 77
    /\ call.after.ref_id = 77

\* C6: whatever byte string a decoder is given, it returns a status and
\* throws no exception.
C6_NeverThrows ==
    call.name \in ReadNames => call.result \in {"0", "1"}

\* The Gps_Ephemeris fields read_MT1019 is said to give back; IODE is the
\* record's IODE_SF2, the one print_MT1019 encodes.
MT1019Fields ==
    {"PRN", "WN", "SV_accuracy", "code_on_L2", "idot", "IODE_SF2", "toc",
     "af2", "af1", "af0", "IODC", "Crs", "delta_n", "M_0", "Cuc", "ecc",
     "Cus", "sqrtA", "toe", "Cic", "OMEGA_0", "Cis", "i_0", "Crc", "omega",
     "OMEGAdot", "TGD", "SV_health", "L2_P_data_flag", "fit_interval_flag"}

\* C7: read_MT1019 of the frame print_MT1019 made of an in-range
\* Gps_Ephemeris returns 0 and gives back every field it reads, the signed
\* ones negative as well as positive.
C7_MT1019RoundTrip ==
    (call.name = "read_MT1019" /\ produced.by = "print_MT1019"
     /\ call.fault = "intact")
    => /\ call.result = "0"
       /\ \A f \in MT1019Fields :
             call.after[f] = produced.args.gps_eph[f]

\* The constant read_MT1045 multiplies by, against the one the setter of
\* the same field divides by: taken to be the same number under two
\* names.
MT1045SameLsb ==
    "I_DOT_2_LSB" :> "FNAV_IDOT_2_LSB"
    @@ "AF2_4_LSB" :> "FNAV_AF2_1_LSB"
    @@ "AF1_4_LSB" :> "FNAV_AF1_1_LSB"
    @@ "AF0_4_LSB" :> "FNAV_AF0_1_LSB"
    @@ "C_RS_3_LSB" :> "FNAV_CRS_3_LSB"
    @@ "DELTA_N_3_LSB" :> "FNAV_DELTAN_3_LSB"
    @@ "M0_1_LSB" :> "FNAV_M0_2_LSB"
    @@ "C_UC_3_LSB" :> "FNAV_CUC_3_LSB"
    @@ "E_1_LSB" :> "FNAV_E_2_LSB"
    @@ "C_US_3_LSB" :> "FNAV_CUS_3_LSB"
    @@ "A_1_LSB_GAL" :> "FNAV_A12_2_LSB"
    @@ "T0E_1_LSB" :> "FNAV_T0E_3_LSB"
    @@ "C_IC_4_LSB" :> "FNAV_CIC_4_LSB"
    @@ "OMEGA_0_2_LSB" :> "FNAV_OMEGA0_2_LSB"
    @@ "C_IS_4_LSB" :> "FNAV_CIS_4_LSB"
    @@ "I_0_2_LSB" :> "FNAV_I0_3_LSB"
    @@ "C_RC_3_LSB" :> "FNAV_CRC_3_LSB"
    @@ "OMEGA_2_LSB" :> "FNAV_OMEGA0_2_LSB"
    @@ "OMEGA_DOT_3_LSB" :> "FNAV_OMEGADOT_2_LSB"

\* A value decoded is the value encoded: equal, or the same count of the
\* same constant under its other name.
SameQuantity(decoded, given) ==
    \/ decoded = given
    \/ /\ decoded[2] \in DOMAIN MT1045SameLsb
       /\ given = <<decoded[1], MT1045SameLsb[decoded[2]]>>

MT1045Plain == {"PRN", "WN", "IOD_nav", "SISA", "E5a_HS", "E5a_DVS"}
MT1045Scaled ==
    {"idot", "toc", "af2", "af1", "af0", "Crs", "delta_n", "M_0", "Cuc",
     "ecc", "Cus", "sqrtA", "toe", "Cic", "OMEGA_0", "Cis", "i_0", "Crc",
     "omega", "OMEGAdot", "BGD_E1E5a"}

\* C8: read_MT1045 of the frame print_MT1045 made of an in-range
\* Galileo_Ephemeris returns 0 and gives back every field it reads: the
\* idot digits of the frame are those of the record given, and every
\* scaled field comes back through the scale it went out with.
C8_MT1045RoundTrip ==
    (call.name = "read_MT1045" /\ produced.by = "print_MT1045"
     /\ call.fault = "intact")
    => /\ call.result = "0"
       /\ \A f \in MT1045Plain :
             call.after[f] = produced.args.gal_eph[f]
       /\ \A f \in MT1045Scaled :
             SameQuantity(call.after[f], produced.args.gal_eph[f])

\* The records print_MT1020 was given, as their fields together.
MT1020Given ==
    produced.args.glonass_gnav_eph @@ produced.args.glonass_gnav_utc_model

\* C9: read_MT1020, into fresh records, of the frame print_MT1020 made of
\* in-range records returns 0 and gives back every field it reads, with
\* its sign and its magnitude.
C9_MT1020RoundTrip ==
    (call.name = "read_MT1020" /\ produced.by = "print_MT1020"
     /\ call.fault = "intact" /\ call.before = GlonassRecords("zero"))
    => /\ call.result = "0"
       /\ \A f \in DOMAIN MT1020Given : call.after[f] = MT1020Given[f]

\* C10: read_MT1005 of the frame print_MT1005 made returns 0 and gives
\* back the reference id, the three flags and the three coordinates,
\* whatever the non-physical, single-oscillator and quarter-cycle inputs.
C10_MT1005RoundTrip ==
    (call.name = "read_MT1005" /\ produced.by = "print_MT1005"
     /\ call.fault = "intact")
    => /\ call.result = "0"
       /\ call.after.ref_id = produced.args.ref_id
       /\ call.after.gps = produced.args.gps
       /\ call.after.glonass = produced.args.glonass
       /\ call.after.galileo = produced.args.galileo
       /\ call.after.ecef_x = produced.args.ecef_x
       /\ call.after.ecef_y = produced.args.ecef_y
       /\ call.after.ecef_z = produced.args.ecef_z

C10_Witness ==
    /\ call.name = "read_MT1005"
    /\ produced.by = "print_MT1005"
    /\ call.fault = "intact"
    /\ call.result = "0"
    /\ produced.args.ref_id = 1
    /\ produced.args.non_physical
    /\ produced.args.ecef_x = <<-2097152, 0>>
    /\ call.after.ecef_x = <<-2097152, 0>>
    /\ call.before.ref_id = 77

\* The frames of the print calls log[1..n] that were made with the server
\* running by a function other than those of quiet, in call order.
RECURSIVE FramesWhileRunning(_, _, _)
FramesWhileRunning(log, n, quiet) ==
    IF n = 0 THEN <<>>
    ELSE FramesWhileRunning(log, n - 1, quiet)
         \o (IF log[n].running /\ log[n].by \notin quiet
             THEN log[n].frames ELSE <<>>)

\* What the print calls have pushed: the queue without stop_server's
\* strings.
PushedByPrints == SelectSeq(rtcm_message_queue, LAMBDA m : m # Goodbye)

WellFormed(frame) ==
    /\ Len(frame) >= 6
    /\ LengthField(frame) = Len(frame) - 6
    /\ CrcVerifies(frame)

\* The digits n .. n + w - 1 of the payload of frame (1 the first).
PayloadDigits(frame, n, w) == substr(binary_data_to_bin(frame), 24 + n - 1, w)

\* The last call was a print call for observables none of which the
\* message takes: none of its constellation and first signal, or none of
\* those with a partner in the second signal; for an MSM, none at all.
NoObservableMatches ==
    /\ produced.by \in {"print_MT_observables", "print_MSM"}
    /\ IF produced.by = "print_MSM" THEN produced.args.observables = <<>>
       ELSE LET sel == MT_observables[produced.args.n]
                obs == produced.args.observables
            IN  \A i \in 1..Len(obs) :
                   \/ obs[i].System # sel.System
                   \/ obs[i].Signal # sel.L1
                   \/ /\ sel.L2 # ""
                      /\ \A j \in 1..Len(obs) :
                            \/ obs[j].System # sel.System
                            \/ obs[j].Signal # sel.L2
                            \/ obs[j].PRN # obs[i].PRN

\* The frame declares no satellite: the 5-digit count of messages
\* 1001-1004 (digits 56-60) and 1009-1012 (digits 53-57) is 0, the 64-digit
\* satellite mask of an MSM (digits 74-137) is empty.
DeclaresNoSatellite ==
    IF produced.by = "print_MSM"
    THEN PayloadDigits(produced.frame, 74, 64) = [i \in 1..64 |-> 0]
    ELSE IF produced.args.n < 1009
    THEN PayloadDigits(produced.frame, 56, 5) = bitset(5, 0)
    ELSE PayloadDigits(produced.frame, 53, 5) = bitset(5, 0)

\* C12: when no observable matches the message (an empty map included),
\* print_MT1001..1004, print_MT1009..1012 and print_MSM_1..7 return a
\* well-formed frame that declares no satellite, and read no element of
\* the empty set.
C12_NoMatchStillFrames ==
    NoObservableMatches
    => /\ produced.events = {}
       /\ WellFormed(produced.frame)
       /\ DeclaresNoSatellite

\* C13: print_MT1001 on a GPS "1C" observable of PRN 200 completes with no
\* access outside the lock-time array, and DF009 (digits 65-70) holds
\* 200 mod 64 = 8.
C13_Prn200Completes ==
    (produced.by = "print_MT_observables" /\ produced.args.n = 1001
     /\ produced.args.snapshot = "gps_far")
    => /\ produced.events = {}
       /\ WellFormed(produced.frame)
       /\ PayloadDigits(produced.frame, 65, 6) = bitset(6, 8)

\* C14: a station id above 4095 is stored in DF003 (digits 13-24) as 4095,
\* and the frame is well formed.
C14_StationIdSaturates ==
    (produced.by = "print_MT_observables" /\ produced.args.station_id > 4095
     /\ produced.frame # <<>>)
    => /\ WellFormed(produced.frame)
       /\ PayloadDigits(produced.frame, 13, 12) = bitset(12, 4095)

\* The elements of a sequence.
Range(s) == {s[i] : i \in 1..Len(s)}

\* The lock_time calls of the print calls log[1..n], in call order.
RECURSIVE LockCalls(_, _)
LockCalls(log, n) ==
    IF n = 0 THEN <<>> ELSE LockCalls(log, n - 1) \o log[n].locks

\* The lock_time calls made so far for one slot.
LockCallsFor(key) ==
    SelectSeq(LockCalls(printed, Len(printed)), LAMBDA c : c.key = key)

\* Epoch a lies before epoch b.
Earlier(a, b) == a[1] < b[1] \/ (a[1] = b[1] /\ a[2] < b[2])

C16_LockTimeNeverNegative ==
    \A c \in Range(LockCalls(printed, Len(printed))) :
        /\ c.stored = <<>> => (c.s = 0 /\ c.after = <<c.at>>)
        /\ c.stored # <<>> => /\ c.after = c.stored
                              /\ c.s = total_seconds(c.at, c.stored[1])
        /\ c.s >= 0

\* Table 3.5-74 by its rule: 0 below 32 s, floor(log2(t)) - 4 from 32 s
\* and below 2^19 s, 15 from 2^19 s (a wrapped-around negative duration is
\* above 2^31).
BucketOf(t) ==
    IF t < 0 THEN 15
    ELSE IF t < 32 THEN 0
    ELSE IF t >= 524288 THEN 15
    ELSE (CHOOSE k \in 5..18 : Pow2(k) <= t /\ t < Pow2(k + 1)) - 4

\* The print_MSM_4 calls among the print calls made so far.
MSM4Calls == SelectSeq(printed, LAMBDA e : e.by = "print_MSM" /\ e.args.n = 4)

\* C17: msm_lock_time_indicator(t) is 0 for t < 32, floor(log2(t)) - 4 for
\* 32 <= t < 2^19 and 15 for t >= 2^19 (31 -> 0, 32 -> 1, 63 -> 1, 64 -> 2,
\* 2^19 - 1 -> 14, 2^19 -> 15), and fits the 4 digits of DF402: in every
\* MSM4 frame DF402 (digits 226-229, after the 170-digit header, DF397,
\* DF398, DF400 and DF401 of the one cell) is that value for the lock time
\* of the call.
C17_MsmLockIndicator ==
    \A i \in 1..Len(MSM4Calls) :
        LET e == MSM4Calls[i]
        IN  /\ BucketOf(e.locks[1].s) \in 0..15
            /\ PayloadDigits(e.frames[1], 226, 4)
                 = bitset(4, BucketOf(e.locks[1].s))

C17_Witness ==
    /\ Len(MSM4Calls) = 3
    /\ MSM4Calls[1].locks[1].s = 0
    /\ MSM4Calls[2].locks[1].s = 32
    /\ PayloadDigits(MSM4Calls[2].frames[1], 226, 4) = <<0, 0, 0, 1>>
    /\ MSM4Calls[3].locks[1].s = 524287
    /\ PayloadDigits(MSM4Calls[3].frames[1], 226, 4) = <<1, 1, 1, 0>>

\* C18: the same print function called twice on one object with the same
\* observables, ephemeris, obs_time and station id returns the same bytes.
C18_SameCallSameFrame ==
    \A i, j \in 1..Len(printed) :
        printed[i].args = printed[j].args
        => printed[i].frames = printed[j].frames

\* C19: for a payload of more than 8184 digits build_message truncates, so
\* that the frame carries at most 1023 payload bytes and its 10-bit length
\* field equals the number of payload bytes present in the frame.
C19_OverlongPayloadTruncated ==
    (produced.by = "build_message" /\ produced.args.L > MaxPayloadBits)
    => /\ Len(produced.frame) - 6 <= Pow2(LengthFieldBits) - 1
       /\ LengthField(produced.frame) = Len(produced.frame) - 6

\* The subtype message number (IDF002) and the SSR multiple message
\* indicator (IDF005) of an IGM frame.
IGM_subtype(frame) == bin_to_uint(PayloadDigits(frame, 16, 8))
IGM_indicator(frame) == PayloadDigits(frame, 48, 1)[1]

\* C20: print_IGM01, print_IGM02, print_IGM03 and print_IGM05 return one
\* frame per constellation segment of the HAS data, in segment order, and
\* the SSR multiple message indicator is 1 in every returned frame but the
\* last, where it is 0.
C20_OneFramePerSegment ==
    produced.by = "print_IGM"
    => LET has_data == produced.args.has_data
           kind     == produced.args.kind
           msgs     == produced.msgs
       IN  /\ Len(msgs) = has_data.Nsys
           /\ \A i \in 1..Len(msgs) :
                 /\ i <= has_data.Nsys
                    => IGM_subtype(msgs[i])
                       = (IF has_data.gnss_id_mask[i] = 0 THEN 20 ELSE 60)
                         + kind
                 /\ IGM_indicator(msgs[i])
                    = (IF i = Len(msgs) THEN 0 ELSE 1)

\* The last call was print_MSM_1 or print_MSM_4 on a map with an element,
\* and it returned a frame.
MSMBuilt ==
    /\ produced.by = "print_MSM"
    /\ produced.args.observables # <<>>
    /\ produced.frame # <<>>

\* The places of the 1 digits of a mask, first digit first.
set_bits(mask) == SelectSeq([i \in 1..Len(mask) |-> i], LAMBDA i : mask[i] = 1)

\* The satellite mask DF394 (payload digits 74-137), the signal mask DF395
\* (digits 138-169) and the n digits after them of an MSM frame.
MSM_DF394(frame) == PayloadDigits(frame, 74, 64)
MSM_DF395(frame) == PayloadDigits(frame, 138, 32)
MSM_after_masks(frame, n) == PayloadDigits(frame, 170, n)

\* The PRNs of the satellite mask of the frame in mask order (digit d is
\* bit 64 - d, PRN d), and the signals of its signal mask in mask order
\* (digit d is the signal of identifier d).
MSM_sats(frame) == set_bits(MSM_DF394(frame))
MSM_sigs(frame) == set_bits(MSM_DF395(frame))

\* The identifier of an observable's signal in the signal mask, 0 for a
\* signal that is not in its constellation's table.
signal_id(gnss_synchro) ==
    LET p == positions_of(<<gnss_synchro>>, {"G", "E", "R"})
    IN  IF p = {} THEN 0 ELSE 32 - (CHOOSE x \in p : TRUE)

\* The digits of one cell of the signal data of print_MSM_k.
CellDigits(k) == IF k = 1 THEN 15 ELSE 15 + 22 + 4 + 1 + 6

\* The digits the satellite data of print_MSM_k holds for one satellite.
SatelliteDigits(k) == IF k = 1 THEN 10 ELSE 8 + 10

\* The frame holds the three parts one after the other.
PartsInFrame ==
    PayloadDigits(produced.frame, 1,
                  Len(produced.parts.header) + Len(produced.parts.sat_data)
                  + Len(produced.parts.signal_data))
      = produced.parts.header \o produced.parts.sat_data
        \o produced.parts.signal_data

\* C21: an observable whose signal is not in its constellation's signal
\* table is dropped from an MSM message: print_MSM_k returns a frame
\* without throwing, the signal has no bit in DF395, and the signal data
\* holds a cell for each of the other observables only.
C21_UnknownSignalDropped ==
    (/\ produced.by = "print_MSM"
     /\ \E i \in 1..Len(produced.args.observables) :
           signal_id(produced.args.observables[i]) = 0)
    => /\ produced.frame # <<>>
       /\ "out_of_range" \notin produced.events
       /\ {signal_id(produced.args.observables[i]) :
              i \in 1..Len(produced.args.observables)} \ {0}
            = {d \in 1..32 : MSM_DF395(produced.frame)[d] = 1}
       /\ Len(produced.parts.signal_data)
            = CellDigits(produced.args.n)
              * Cardinality({i \in 1..Len(produced.args.observables) :
                               signal_id(produced.args.observables[i]) # 0})

\* C23: in every MSM frame the satellite data holds exactly one entry per
\* set bit of DF394, in the order of the bits from the most significant
\* one (ascending PRN), whatever the order of the map's keys: the n-th
\* rough range (DF398, after the DF397 of all satellites in an MSM4) is
\* that of an observable of the n-th PRN of the mask.
C23_SatelliteDataFollowsMask ==
    MSMBuilt
    => LET sats == MSM_sats(produced.frame)
           data == produced.parts.sat_data
           k    == produced.args.n
           obs  == produced.args.observables
       IN  /\ PartsInFrame
           /\ Len(data) = SatelliteDigits(k) * Len(sats)
           /\ \A n \in 1..Len(sats) :
                 \E i \in 1..Len(obs) :
                    /\ obs[i].PRN = sats[n]
                    /\ SubSeq(data,
                              (SatelliteDigits(k) - 10) * Len(sats)
                              + 10 * (n - 1) + 1,
                              (SatelliteDigits(k) - 10) * Len(sats)
                              + 10 * n)
                         = bitset(10, obs[i].Pseudorange_m)

C23_Witness ==
    /\ MSMBuilt
    /\ produced.args.n = 1
    /\ produced.args.snapshot = "msm_descending"
    /\ produced.args.observables[1].PRN = 7
    /\ produced.args.observables[2].PRN = 5
    /\ MSM_sats(produced.frame) = <<5, 7>>
    /\ produced.parts.sat_data = bitset(10, 9) \o bitset(10, 3)

\* C24: the cell mask DF396 has popcount(DF394) * popcount(DF395) digits,
\* satellite by satellite, and a digit is 1 exactly when the snapshot
\* holds an observable of that PRN and signal: for GPS, Galileo and
\* GLONASS observables alike.
C24_CellMask ==
    MSMBuilt
    => LET sats == MSM_sats(produced.frame)
           sigs == MSM_sigs(produced.frame)
           obs  == produced.args.observables
           DF396 == MSM_after_masks(produced.frame, Len(sats) * Len(sigs))
       IN  /\ Len(produced.parts.header) = 169 + Len(sats) * Len(sigs)
           /\ \A n \in 1..Len(sats), m \in 1..Len(sigs) :
                 DF396[(n - 1) * Len(sigs) + m] = 1
                 <=> \E i \in 1..Len(obs) : /\ obs[i].PRN = sats[n]
                                            /\ signal_id(obs[i]) = sigs[m]

\* C25: the cells of the signal data correspond one to one and in order
\* to the 1 digits of DF396: there are as many, and the n-th cell is of
\* an observable of the satellite and signal of the n-th 1 digit (in an
\* MSM4 its DF403, after the DF400, DF401, DF402 and DF420 of all cells,
\* is that observable's CN0), also when two map entries have the same
\* PRN and signal, and whichever order std::sort gives equal elements.
C25_CellsFollowCellMask ==
    MSMBuilt
    => LET sats  == MSM_sats(produced.frame)
           sigs  == MSM_sigs(produced.frame)
           obs   == produced.args.observables
           k     == produced.args.n
           data  == produced.parts.signal_data
           ones  == set_bits(MSM_after_masks(produced.frame,
                                             Len(sats) * Len(sigs)))
           sat(c) == sats[((c - 1) \div Len(sigs)) + 1]
           sig(c) == sigs[((c - 1) % Len(sigs)) + 1]
       IN  /\ Len(data) = CellDigits(k) * Len(ones)
           /\ k = 4
              => \A n \in 1..Len(ones) :
                    \E i \in 1..Len(obs) :
                       /\ obs[i].PRN = sat(ones[n])
                       /\ signal_id(obs[i]) = sig(ones[n])
                       /\ SubSeq(data, 42 * Len(ones) + 6 * (n - 1) + 1,
                                 42 * Len(ones) + 6 * n)
                            = bitset(6, obs[i].CN0_dB_hz)

\* The digits of one satellite's content block in MT1001..1004 and
\* MT1009..1012.
BlockDigits(msg_number) ==
    CASE msg_number = 1001 -> 58 [] msg_number = 1002 -> 74
      [] msg_number = 1003 -> 101 [] msg_number = 1004 -> 125
      [] msg_number = 1009 -> 64 [] msg_number = 1010 -> 79
      [] msg_number = 1011 -> 107 [] msg_number = 1012 -> 130

\* The number-of-satellites field of a frame of MT1001..1004 (DF006,
\* digits 56-60) or MT1009..1012 (DF035, digits 53-57).
DeclaredSatellites(msg_number, frame) ==
    bin_to_uint(PayloadDigits(frame, IF msg_number < 1009 THEN 56 ELSE 53, 5))

\* C28: in every frame of MT1001..1004 and MT1009..1012 the 5-bit
\* number-of-satellites field (DF006 / DF035) equals the number of
\* per-satellite content blocks that follow the header, also when more
\* than 31 satellites match and when the L2 subset of an L1+L2 message
\* holds the same PRN under two map keys.
C28_SatelliteCountMatchesBlocks ==
    (produced.by = "print_MT_observables" /\ produced.frame # <<>>)
    => /\ PartsInFrame
       /\ Len(produced.parts.sat_data)
            = BlockDigits(produced.args.n)
              * DeclaredSatellites(produced.args.n, produced.frame)

\* The data fields of a newly constructed Rtcm object.
NewFields ==
    [DF002 |-> bitset(12, 0), DF292 |-> bitset(14, 0),
     DF014 |-> bitset(8, 0), DF015 |-> bitset(8, 0),
     DF019 |-> bitset(7, 0), DF024 |-> bitset(1, 0)]

\* C29: every data field a print function places in its payload is set
\* during that same call, so the frame returned does not depend on the
\* values earlier calls left in the object's fields: a print call returns
\* the frame it returns, with the same lock-time arrays, on an object
\* whose fields are as constructed (DF014 and DF015 of MT1002 included).
C29_FrameIndependentOfFields ==
    [][produced'.frame # <<>>
       => produced'.frame
            = print_observables(produced'.args, NewFields, last_lock_time,
                                produced'.ub).frame]_vars

\* The decoder of the given name on a message and the record(s) to fill.
read_by(name, message, out) ==
    CASE name = "read_MT1019" -> read_MT1019(message, out)
      [] name = "read_MT1020" -> read_MT1020(message, out)
      [] name = "read_MT1045" -> read_MT1045(message, out)

\* The fields the decoder assigns whatever the frame holds: those of its
\* statements before a test of the frame's digits.
RECURSIVE AssignedAlways(_)
AssignedAlways(fields) ==
    IF fields = <<>> \/ Head(fields).conv = "stop_unless_set" THEN {}
    ELSE (IF Head(fields).f = "" THEN {} ELSE {Head(fields).f})
         \cup AssignedAlways(Tail(fields))

DecodedFields(name) ==
    CASE name = "read_MT1019" -> AssignedAlways(read_MT1019_fields)
      [] name = "read_MT1020" -> AssignedAlways(read_MT1020_fields)
      [] name = "read_MT1045" -> AssignedAlways(read_MT1045_fields)

\* A new record of the decoder's output type.
NewRecord(name) ==
    CASE name = "read_MT1019" -> GpsOuts.fresh
      [] name = "read_MT1020" -> GlonassOuts.fresh
      [] name = "read_MT1045" -> GalileoOuts.fresh

\* C30: the record a successful read_MT1019, read_MT1020 or read_MT1045
\* leaves depends on the frame alone: every decoded field (d_t_k of
\* MT1020 among them) has the value the same frame gives in a new record,
\* and decoding the frame once more into the record leaves it the same.
C30_DecodedFromFrameAlone ==
    (call.name \in {"read_MT1019", "read_MT1020", "read_MT1045"}
     /\ call.result = "0")
    => LET new   == read_by(call.name, call.message,
                            NewRecord(call.name)).rec
           twice == read_by(call.name, call.message, call.after).rec
       IN  \A f \in DecodedFields(call.name) :
              call.after[f] = new[f] /\ call.after[f] = twice[f]

\* The fields of MT1020 that set_DF111 .. set_DF125 write as a sign digit
\* and a magnitude.
SignMagnitudeFields ==
    {"d_VXn", "d_Xn", "d_AXn", "d_VYn", "d_Yn", "d_AYn", "d_VZn", "d_Zn",
     "d_AZn", "d_gamma_n", "d_tau_n", "d_Delta_tau_n"}

\* -1, 0 or 1 as the number is negative, zero or positive.
Sign(n) == IF n < 0 THEN -1 ELSE IF n > 0 THEN 1 ELSE 0

\* C27: bin_to_sint reads the first digit as a sign flag in which 1 means
\* negative, the convention glo_sgn writes: of the 24 digits of DF111 in
\* an MT1020 frame (payload digits 49-72) it returns minus the magnitude
\* when the first digit is 1 and the magnitude when it is 0, and
\* read_MT1020 gives every field written by set_DF111 .. set_DF125 back
\* with the sign it was given.
C27_SignFlagOneIsNegative ==
    (produced.by = "print_MT1020" /\ call.name = "read_MT1020"
     /\ call.fault = "intact" /\ call.result = "0")
    => LET DF111 == PayloadDigits(produced.frame, 49, 24)
       IN  /\ DF111[1] = glo_sgn(MT1020Given.d_VXn)
           /\ bin_to_sint(DF111)
                = (IF DF111[1] = 1 THEN -1 ELSE 1) * bin_to_uint(Tail(DF111))
           /\ \A f \in SignMagnitudeFields :
                 Sign(call.after[f][1]) = Sign(MT1020Given[f][1])

\* C26: the integer set_IDF013 .. set_IDF021 and set_IDF025 store (the
\* field read as a two's complement number of its width) lies within
\* +/-(2^(width-1) - 1), and for a value whose scaled magnitude is beyond
\* that bound it is the bound with the value's own sign: no conversion on
\* the way (the 16-bit one of set_IDF025 included) wraps before the clamp.
C26_SaturatesWithOwnSign ==
    produced.by = "set_IDF"
    => LET stored == bin_to_int(produced.IDF)
           bound  == Pow2(Len(produced.IDF) - 1) - 1
           value  == produced.args.value
           beyond == \/ value > bound \div IDF_scale(produced.args.field)
                     \/ -value > bound \div IDF_scale(produced.args.field)
       IN  /\ stored >= -bound /\ stored <= bound
           /\ beyond => stored = Sign(value) * bound

\* The call of the given number on the given instance, once it has
\* returned.
ReturnedCall(i, number) ==
    CHOOSE e \in Range(printed) : e.instance = i /\ e.number = number

\* The orders in which the calls that have returned can be made one after
\* the other, each as the sequence of the instances called: every
\* instance as often as it was called (its calls in their order).
SerialOrders ==
    {o \in [1..Len(printed) -> Instances] :
        \A i \in Instances :
           Cardinality({n \in 1..Len(printed) : o[n] = i})
             = Cardinality({n \in 1..Len(printed) : printed[n].instance = i})}

\* The call made at place n of an order.
CallAt(o, n) ==
    ReturnedCall(o[n], Cardinality({m \in 1..n : o[m] = o[n]}))

\* The lock-time arrays and the durations returned after the first n calls
\* of an order, made one after the other from arrays that hold no time.
RECURSIVE SerialRun(_, _)
SerialRun(o, n) ==
    IF n = 0 THEN [tables |-> <<>>, s |-> <<>>]
    ELSE LET before == SerialRun(o, n - 1)
             l == lock_time(ConcurrentEph, CallAt(o, n).obs_time,
                            ConcurrentSynchro, before.tables, "unset")
         IN  [tables |-> l.tables, s |-> Append(before.s, l.s)]

=============================================================================
